---- MODULE Spec2Model ----
(***************************************************************************)
(* ACRO disclosure-rule evaluation and suppression engine                  *)
(* (src/acro/acro_tables.py).                                              *)
(*                                                                         *)
(* Values.  A raw value of the value column is an option: <<x>> is the     *)
(* integer x, <<>> is the missing sentinel (NaN).  The value column is     *)
(* integer valued in this model, so that the two ratio tests               *)
(* (p_val < SAFE_PRATIO_P, n_total / total > SAFE_NK_K) are decided by     *)
(* exact cross-multiplication.                                             *)
(*                                                                         *)
(* Specifications.  SpecAgg: the rule predicates on one group.             *)
(* SpecSummary: get_summary on an SDC dictionary.  SpecSupp:               *)
(* apply_suppression and get_table_sdc on a table and a mask dict.  Spec:  *)
(* Tables.crosstab and Tables.pivot_table on the data of a session, with   *)
(* margins = False, dropna = True and normalize = False.  SpecMargins:     *)
(* Tables.crosstab with margins = True in a session that suppresses.       *)
(* SpecList: Tables.crosstab with a list of aggregation functions.         *)
(* SpecPrune: delete_empty_rows_columns on a table.                        *)
(* SpecQueries: get_queries and the filter of crosstab_with_totals on the   *)
(* masks of a call with one or two row keys and column keys.               *)
(* SpecDof: the check of a model's degrees of freedom                      *)
(* (src/acro/acro_regression.py).  SpecLedger: the operations of a Records *)
(* object (src/acro/record.py).                                            *)
(***************************************************************************)
EXTENDS Integers, Sequences, FiniteSets, TLC

VARIABLES
    THRESHOLD,              \* acro_tables.THRESHOLD (session risk appetite)
    ZEROS_ARE_DISCLOSIVE,   \* acro_tables.ZEROS_ARE_DISCLOSIVE
    CHECK_MISSING_VALUES,   \* acro_tables.CHECK_MISSING_VALUES
    vals,                   \* the Series handed to a rule predicate
    aggout,                 \* what the last rule-predicate call returned
    suppress,               \* Tables.suppress
    table,                  \* the DataFrame handed to apply_suppression
    masks,                  \* dict of masks, in insertion order: <<[name, df], ..>>
    safe_df,                \* apply_suppression: first returned DataFrame
    outcome_df,             \* apply_suppression: second returned DataFrame
    warnings,               \* names of the masks logged as "problem mask"
    reapplied,              \* redacted table of a second apply_suppression
    raised,                 \* exception the last call ended with ("" = returned)
    sdc,                    \* the SDC dictionary
    status,                 \* get_summary: status
    summary,                \* get_summary: summary
    data,                   \* the records: key pair |-> values of the value column
    categorical,            \* whether the grouping keys are Categorical
    call,                   \* the arguments of the tabulation call made
    output,                 \* the DataFrame the tabulation call returned
    comments,               \* delete_empty_rows_columns: comments
    results,                \* Records.results, in insertion order
    output_id,              \* Records.output_id
    safe_dof_threshold,     \* config["safe_dof_threshold"]
    df_resid,               \* model.df_resid of the fitted model
    dof_check,              \* what the last check of the model's DOF returned
    request                 \* the last operation asked of the Records object

cfgVars == <<THRESHOLD, ZEROS_ARE_DISCLOSIVE, CHECK_MISSING_VALUES, suppress>>
aggVars == <<vals, aggout>>
suppVars == <<table, masks, safe_df, outcome_df, warnings, reapplied>>
sumVars == <<sdc, status, summary>>

sessVars == <<data, categorical, call, output, comments, results, output_id>>

regVars == <<safe_dof_threshold, df_resid, dof_check>>

vars == <<cfgVars, aggVars, suppVars, sumVars, raised, sessVars, regVars, request>>

----------------------------------------------------------------------------
(* Bounds of the model *)

MaxLen == 3          \* longest group handed to a rule predicate
MaxVal == 5          \* largest raw value
NegVals == 1         \* raw values range over -NegVals..MaxVal
MaxDelta == 2        \* largest increase applied to the largest value
MaxThreshold == 3    \* largest configured THRESHOLD

----------------------------------------------------------------------------
(* Program constants *)

SAFE_NK_N == 2
SAFE_PRATIO_P == <<1, 10>>     \* 0.1 as numerator / denominator
SAFE_NK_K == <<9, 10>>         \* 0.9 as numerator / denominator

----------------------------------------------------------------------------
(* pandas Series helpers *)

NaN == <<>>
Num(x) == <<x>>
IsNa(v) == v = NaN
RawValues == {Num(x) : x \in (0 - NegVals)..MaxVal} \cup {NaN}

RECURSIVE SeqsUpTo(_, _)
SeqsUpTo(S, n) ==
    IF n = 0 THEN {<<>>}
    ELSE LET shorter == SeqsUpTo(S, n - 1)
         IN  shorter \cup {Append(s, x) : s \in {t \in shorter : Len(t) = n - 1}, x \in S}

Groups == SeqsUpTo(RawValues, MaxLen)

\* Series.dropna(): the non-missing values, in order
RECURSIVE dropna(_)
dropna(s) ==
    IF s = <<>> THEN <<>>
    ELSE IF IsNa(Head(s)) THEN dropna(Tail(s))
    ELSE <<Head(s)>> \o dropna(Tail(s))

\* Series.size: every value, missing or not
size(s) == Len(s)

\* Series.count(): the non-missing values only
count(s) == Len(dropna(s))

\* Series.sum(): missing values are skipped, the empty sum is 0
RECURSIVE sum(_)
sum(s) ==
    IF s = <<>> THEN 0
    ELSE (IF IsNa(Head(s)) THEN 0 ELSE Head(s)[1]) + sum(Tail(s))

\* index of a largest non-missing value of a Series that has one
ArgMax(s) ==
    CHOOSE i \in 1..Len(s) :
        /\ ~IsNa(s[i])
        /\ \A j \in 1..Len(s) : ~IsNa(s[j]) => s[j][1] <= s[i][1]

RemoveAt(s, i) == SubSeq(s, 1, i - 1) \o SubSeq(s, i + 1, Len(s))

\* Series.sort_values(ascending=False): descending, missing values last
RECURSIVE sort_values_desc(_)
sort_values_desc(s) ==
    IF s = <<>> THEN <<>>
    ELSE IF count(s) = 0 THEN s
    ELSE <<s[ArgMax(s)]>> \o sort_values_desc(RemoveAt(s, ArgMax(s)))

\* sorted_vals.iloc[0:n]
iloc_head(s, n) == SubSeq(s, 1, IF n < Len(s) THEN n ELSE Len(s))

\* Series.min(): smallest non-missing value, NaN when there is none
min(s) ==
    IF count(s) = 0 THEN NaN
    ELSE LET d == dropna(s)
         IN  d[CHOOSE i \in 1..Len(d) : \A j \in 1..Len(d) : d[i][1] <= d[j][1]]

\* Series.nunique(dropna=True)
nunique(s) == Cardinality({dropna(s)[i] : i \in 1..Len(dropna(s))})

----------------------------------------------------------------------------
(* Rule predicates *)

agg_negative(v) == IF IsNa(min(v)) THEN FALSE ELSE min(v)[1] < 0

agg_missing(v) == size(v) - count(v) # 0

\* A comparison with NaN is False: sub_total is NaN as soon as one of the two
\* leading values of sorted_vals is missing.
agg_p_percent(v) ==
    LET sorted_vals == sort_values_desc(v)
        total == sum(sorted_vals)
    IN  IF total <= 0 \/ size(v) <= 1 THEN ZEROS_ARE_DISCLOSIVE
        ELSE IF IsNa(sorted_vals[1]) \/ IsNa(sorted_vals[2]) THEN FALSE
        ELSE LET sub_total == total - sorted_vals[1][1] - sorted_vals[2][1]
             IN  sub_total * SAFE_PRATIO_P[2] < SAFE_PRATIO_P[1] * sorted_vals[1][1]

\* agg_nk with the boundary included (>= instead of >)
agg_nk_boundary_included(v) ==
    LET total == sum(v)
    IN  IF total > 0
        THEN LET sorted_vals == sort_values_desc(v)
                 n_total == sum(iloc_head(sorted_vals, SAFE_NK_N))
             IN  n_total * SAFE_NK_K[2] >= SAFE_NK_K[1] * total
        ELSE FALSE

\* agg_nk with the comparison reversed (< instead of >)
agg_nk_reversed(v) ==
    LET total == sum(v)
    IN  IF total > 0
        THEN LET sorted_vals == sort_values_desc(v)
                 n_total == sum(iloc_head(sorted_vals, SAFE_NK_N))
             IN  n_total * SAFE_NK_K[2] < SAFE_NK_K[1] * total
        ELSE FALSE

agg_nk(v) ==
    LET total == sum(v)
    IN  IF total > 0
        THEN LET sorted_vals == sort_values_desc(v)
                 n_total == sum(iloc_head(sorted_vals, SAFE_NK_N))
             IN  n_total * SAFE_NK_K[2] > SAFE_NK_K[1] * total
        ELSE FALSE

agg_threshold(v) == count(v) < THRESHOLD

agg_values_are_same(v) == nunique(v) = 1

RulePredicate(fn, v) ==
    CASE fn = "agg_negative" -> agg_negative(v)
      [] fn = "agg_missing" -> agg_missing(v)
      [] fn = "agg_p_percent" -> agg_p_percent(v)
      [] fn = "agg_nk" -> agg_nk(v)
      [] fn = "agg_threshold" -> agg_threshold(v)
      [] fn = "agg_values_are_same" -> agg_values_are_same(v)

RuleFns == {"agg_negative", "agg_missing", "agg_p_percent", "agg_nk",
            "agg_threshold", "agg_values_are_same"}

----------------------------------------------------------------------------
(* SpecAgg: one group, the rule predicates applied to it *)

NotCalled == [fn |-> "none", result |-> FALSE, before |-> FALSE]

\* nothing tabulated, nothing suppressed, nothing summarised yet
NoDF == [index |-> <<>>, columns |-> <<>>, values |-> <<>>]
NoSdc == [suppressed |-> FALSE, summary |-> <<>>, cells |-> <<>>]
NoSupp ==
    /\ table = NoDF
    /\ masks = <<>>
    /\ safe_df = NoDF
    /\ outcome_df = NoDF
    /\ warnings = {}
    /\ reapplied = NoDF
NoSummary ==
    /\ sdc = NoSdc
    /\ status = ""
    /\ summary = ""
NotChecked == [status |-> "", summary |-> "", dof |-> <<>>, warning |-> ""]
NoModel ==
    /\ safe_dof_threshold = 0
    /\ df_resid = 0
    /\ dof_check = NotChecked
NoRequest == [method |-> "none", key |-> "", new |-> "", text |-> ""]
None == [kind |-> "None", names |-> <<>>]
Str(n) == [kind |-> "str", names |-> <<n>>]
List(ns) == [kind |-> "list", names |-> ns]
NoCall ==
    [method |-> "none", values |-> "None", aggfunc |-> None,
     margins |-> FALSE, show_suppressed |-> FALSE]
\* no data loaded, no tabulation called, an empty Records object
NoSession ==
    /\ data = <<>>
    /\ categorical = FALSE
    /\ call = NoCall
    /\ output = NoDF
    /\ comments = <<>>
    /\ results = <<>>
    /\ output_id = 0

InitAgg ==
    /\ THRESHOLD \in 1..MaxThreshold
    /\ ZEROS_ARE_DISCLOSIVE \in BOOLEAN
    /\ CHECK_MISSING_VALUES = FALSE
    /\ suppress = TRUE
    /\ vals \in Groups
    /\ aggout = NotCalled
    /\ NoSupp
    /\ NoSummary
    /\ raised = ""
    /\ NoModel
    /\ request = NoRequest
    /\ NoSession

\* one call of a rule predicate on the group
CallPredicate(fn) ==
    /\ aggout' = [fn |-> fn, result |-> RulePredicate(fn, vals), before |-> FALSE]
    /\ UNCHANGED <<cfgVars, vals, suppVars, sumVars, raised, sessVars, regVars, request>>

\* the group with its single largest value increased by d, the others held fixed
IncreaseLargest(v, d) ==
    [v EXCEPT ![ArgMax(v)] = Num(v[ArgMax(v)][1] + d)]

\* agg_nk evaluated again after the largest value of the group was increased
CallNkAfterIncrease(d) ==
    /\ aggout.fn = "agg_nk"
    /\ count(vals) > 0
    /\ vals[ArgMax(vals)][1] <= MaxVal
    /\ vals' = IncreaseLargest(vals, d)
    /\ aggout' = [fn |-> "agg_nk_increased", result |-> agg_nk(vals'),
                  before |-> aggout.result]
    /\ UNCHANGED <<cfgVars, suppVars, sumVars, raised, sessVars, regVars, request>>

NextAgg ==
    \/ \E fn \in RuleFns : CallPredicate(fn)
    \/ \E d \in 1..MaxDelta : CallNkAfterIncrease(d)

SpecAgg == InitAgg /\ [][NextAgg]_vars

----------------------------------------------------------------------------
(* get_summary: status and one-line summary from the SDC dictionary *)

MaxCount == 2        \* largest per-rule violation count handed to get_summary

\* the rule names, in the order get_table_sdc initialises them
RuleNames == <<"negative", "missing", "threshold", "p-ratio", "nk-rule",
               "all-values-are-same">>
RuleNameSet == {RuleNames[i] : i \in 1..Len(RuleNames)}

\* get_summary with the missing count not looked at
get_summary_ignoring_missing(s) ==
    LET sm == s.summary
        sup == IF s.suppressed THEN "suppressed" ELSE "may need suppressing"
        item(name) ==
            IF sm[name] > 0
            THEN name \o ": " \o ToString(sm[name]) \o " cells " \o sup \o "; "
            ELSE ""
        text == IF sm["negative"] > 0 THEN "negative values found"
                ELSE item("threshold") \o item("p-ratio") \o item("nk-rule")
                         \o item("all-values-are-same")
        st == IF sm["negative"] > 0 THEN "review"
              ELSE IF \/ sm["threshold"] > 0 \/ sm["p-ratio"] > 0
                      \/ sm["nk-rule"] > 0 \/ sm["all-values-are-same"] > 0
                   THEN "fail"
              ELSE "pass"
    IN  [status |-> st,
         summary |-> IF text # "" THEN st \o "; " \o text ELSE st]

\* the summary that says "suppressed" whatever the session's flag
get_summary_always_suppressed(s) ==
    LET sm == s.summary
        sup == "suppressed"
        item(name) ==
            IF sm[name] > 0
            THEN name \o ": " \o ToString(sm[name]) \o " cells " \o sup \o "; "
            ELSE ""
        text == IF sm["negative"] > 0 THEN "negative values found"
                ELSE IF sm["missing"] > 0 THEN "missing values found"
                ELSE item("threshold") \o item("p-ratio") \o item("nk-rule")
                         \o item("all-values-are-same")
        st == IF sm["negative"] > 0 THEN "review"
              ELSE IF sm["missing"] > 0 THEN "review"
              ELSE IF \/ sm["threshold"] > 0 \/ sm["p-ratio"] > 0
                      \/ sm["nk-rule"] > 0 \/ sm["all-values-are-same"] > 0
                   THEN "fail"
              ELSE "pass"
    IN  [status |-> st,
         summary |-> IF text # "" THEN st \o "; " \o text ELSE st]

get_summary(s) ==
    LET sm == s.summary
        sup == IF s.suppressed THEN "suppressed" ELSE "may need suppressing"
        item(name) ==
            IF sm[name] > 0
            THEN name \o ": " \o ToString(sm[name]) \o " cells " \o sup \o "; "
            ELSE ""
        text == IF sm["negative"] > 0 THEN "negative values found"
                ELSE IF sm["missing"] > 0 THEN "missing values found"
                ELSE item("threshold") \o item("p-ratio") \o item("nk-rule")
                         \o item("all-values-are-same")
        st == IF sm["negative"] > 0 THEN "review"
              ELSE IF sm["missing"] > 0 THEN "review"
              ELSE IF \/ sm["threshold"] > 0 \/ sm["p-ratio"] > 0
                      \/ sm["nk-rule"] > 0 \/ sm["all-values-are-same"] > 0
                   THEN "fail"
              ELSE "pass"
    IN  [status |-> st,
         summary |-> IF text # "" THEN st \o "; " \o text ELSE st]

\* the SDC dictionaries handed to get_summary
SdcInputs ==
    {[suppressed |-> b, summary |-> f, cells |-> <<>>] :
        b \in BOOLEAN, f \in [RuleNameSet -> 0..MaxCount]}

InitSummary ==
    /\ THRESHOLD = 1
    /\ ZEROS_ARE_DISCLOSIVE = TRUE
    /\ CHECK_MISSING_VALUES = FALSE
    /\ suppress = TRUE
    /\ vals = <<>>
    /\ aggout = NotCalled
    /\ NoSupp
    /\ sdc \in SdcInputs
    /\ status = ""
    /\ summary = ""
    /\ raised = ""
    /\ NoModel
    /\ request = NoRequest
    /\ NoSession

Call_get_summary ==
    /\ status' = get_summary(sdc).status
    /\ summary' = get_summary(sdc).summary
    /\ UNCHANGED <<cfgVars, aggVars, suppVars, sdc, raised, sessVars, regVars, request>>

NextSummary == Call_get_summary

SpecSummary == InitSummary /\ [][NextSummary]_vars

----------------------------------------------------------------------------
(* DataFrames.  A DataFrame is [index, columns, values]: the row keys, the    *)
(* column keys and the matrix of cells (df.values), a sequence of rows.  A    *)
(* table cell is a value or NaN, an outcome cell is a string, a mask cell is  *)
(* one of "True", "False", "NaN" (a mask holding a NaN is not of bool dtype). *)

MaxMasks == 2        \* most masks in a dict handed to apply_suppression

nrows(df) == Len(df.index)
ncols(df) == Len(df.columns)
shape(df) == <<nrows(df), ncols(df)>>

Full(idx, cols, x) ==
    [index |-> idx, columns |-> cols,
     values |-> [i \in 1..Len(idx) |-> [j \in 1..Len(cols) |-> x]]]

\* DataFrame().reindex_like(df) followed by fillna(x)
reindex_like_filled(df, x) == Full(df.index, df.columns, x)

is_bool_dtype(mask) ==
    \A i \in 1..nrows(mask) : \A j \in 1..ncols(mask) :
        mask.values[i][j] \in {"True", "False"}

\* df[mask.values] = x, DataFrame._setitem_frame with an ndarray key: what it
\* raises ("" when it raises nothing)
setitem_raises(df, mask) ==
    IF shape(mask) # shape(df) THEN "ValueError"
    ELSE IF nrows(mask) * ncols(mask) > 0 /\ ~is_bool_dtype(mask) THEN "TypeError"
    ELSE ""

\* an assignment that spreads: x is also set in a cell whose left neighbour
\* already holds x
setitem_spreading(df, mask, x) ==
    [df EXCEPT !.values =
        [i \in 1..nrows(df) |-> [j \in 1..ncols(df) |->
            IF mask.values[i][j] = "True" \/ (j > 1 /\ df.values[i][j - 1] = x)
            THEN x ELSE df.values[i][j]]]]

\* df[mask.values] = x when it raises nothing
setitem(df, mask, x) ==
    [df EXCEPT !.values =
        [i \in 1..nrows(df) |-> [j \in 1..ncols(df) |->
            IF mask.values[i][j] = "True" THEN x ELSE df.values[i][j]]]]

\* outcome_df += tmp_df
concat_cells(a, b) ==
    [a EXCEPT !.values =
        [i \in 1..nrows(a) |-> [j \in 1..ncols(a) |-> a.values[i][j] \o b.values[i][j]]]]

\* outcome_df.replace({"": "ok"})
replace_empty_ok(df) ==
    [df EXCEPT !.values =
        [i \in 1..nrows(df) |-> [j \in 1..ncols(df) |->
            IF df.values[i][j] = "" THEN "ok" ELSE df.values[i][j]]]]

HasMask(ms, name) == \E k \in 1..Len(ms) : ms[k].name = name
MaskOf(ms, name) == ms[CHOOSE k \in 1..Len(ms) : ms[k].name = name].df

Bool(b) == IF b THEN "True" ELSE "False"

\* a numeric cell as a ratio <<n, d>>: NaN is 0 in a sum, an integer x is x / 1
AsRatio(c) == IF IsNa(c) THEN <<0, 1>> ELSE IF Len(c) = 1 THEN <<c[1], 1>> ELSE c

\* t_values < THRESHOLD: a comparison with NaN is False
less_than(df, t) ==
    [df EXCEPT !.values =
        [i \in 1..nrows(df) |-> [j \in 1..ncols(df) |->
            IF IsNa(df.values[i][j]) THEN "False"
            ELSE Bool(df.values[i][j][1] < t * AsRatio(df.values[i][j])[2])]]]

\* mask.fillna(value=1), astype(int), replace({0: False, 1: True})
fillna_true(mask) ==
    [mask EXCEPT !.values =
        [i \in 1..nrows(mask) |-> [j \in 1..ncols(mask) |->
            IF mask.values[i][j] = "NaN" THEN "True" ELSE mask.values[i][j]]]]

normalise(ms) == [k \in 1..Len(ms) |-> [name |-> ms[k].name, df |-> fillna_true(ms[k].df)]]

Mask(name, df) == <<[name |-> name, df |-> df]>>

----------------------------------------------------------------------------
(* apply_suppression *)

Raise(e) == [raised |-> e, safe_df |-> NoDF, outcome_df |-> NoDF, warnings |-> {}]

\* the short-circuit branches: only the outcome is labelled
label_only(t, mask, label) ==
    LET outcome0 == reindex_like_filled(t, "")
    IN  IF setitem_raises(outcome0, mask) # ""
        THEN Raise(setitem_raises(outcome0, mask))
        ELSE [raised |-> "", safe_df |-> t,
              outcome_df |-> setitem(outcome0, mask, label), warnings |-> {}]

\* the loop over masks.items(), from the k-th mask on
RECURSIVE suppress_from(_, _, _)
suppress_from(ms, k, acc) ==
    IF k > Len(ms) \/ acc.raised # "" THEN acc
    ELSE LET name == ms[k].name
             mask == ms[k].df
             e == setitem_raises(acc.safe_df, mask)
         IN  IF e = "TypeError"
             THEN suppress_from(ms, k + 1,
                      [acc EXCEPT !.warnings = acc.warnings \cup {name}])
             ELSE IF e = "ValueError"
             THEN Raise("ValueError")
             ELSE suppress_from(ms, k + 1,
                      [acc EXCEPT
                          !.safe_df = setitem(acc.safe_df, mask, NaN),
                          !.outcome_df =
                              concat_cells(acc.outcome_df,
                                  setitem(reindex_like_filled(acc.outcome_df, ""),
                                          mask, name \o "; "))])

\* apply_suppression with safe_df = table instead of table.copy(): the cells
\* set in safe_df are set in the caller's table
apply_suppression_in_place(t, ms) ==
    LET ret ==
            IF HasMask(ms, "negative")
            THEN label_only(t, MaskOf(ms, "negative"), "negative")
            ELSE IF HasMask(ms, "missing")
            THEN label_only(t, MaskOf(ms, "missing"), "missing")
            ELSE LET r == suppress_from(ms, 1,
                              [raised |-> "", safe_df |-> t,
                               outcome_df |-> reindex_like_filled(t, ""),
                               warnings |-> {}])
                 IN  IF r.raised # "" THEN r
                     ELSE [r EXCEPT !.outcome_df = replace_empty_ok(r.outcome_df)]
    IN  ret @@ [table |-> IF ret.raised = "" THEN ret.safe_df ELSE t]

\* safe_df is table.copy() and outcome_df a new DataFrame, every assignment
\* goes to one of the two: the field table, the caller's table after the
\* call, is the table passed in
apply_suppression(t, ms) ==
    (IF HasMask(ms, "negative") THEN label_only(t, MaskOf(ms, "negative"), "negative")
     ELSE IF HasMask(ms, "missing") THEN label_only(t, MaskOf(ms, "missing"), "missing")
     ELSE LET r == suppress_from(ms, 1,
                       [raised |-> "", safe_df |-> t,
                        outcome_df |-> reindex_like_filled(t, ""), warnings |-> {}])
          IN  IF r.raised # "" THEN r
              ELSE [r EXCEPT !.outcome_df = replace_empty_ok(r.outcome_df)])
        @@ [table |-> t]

----------------------------------------------------------------------------
(* get_table_sdc *)

\* mask.size: every cell of the mask, whatever it holds
mask_size(mask) == nrows(mask) * ncols(mask)

\* int(np.nansum(mask.to_numpy())): the True cells, NaN counting as 0
nansum(mask) ==
    Cardinality({<<i, j>> \in (1..nrows(mask)) \X (1..ncols(mask)) :
                    mask.values[i][j] = "True"})

\* np.column_stack(np.where(mask.values)): the truthy cells (True, and NaN,
\* which is truthy), as 0-based [row, col] in row-major order
RECURSIVE true_positions(_, _)
true_positions(mask, k) ==
    IF k >= nrows(mask) * ncols(mask) THEN <<>>
    ELSE LET i == k \div ncols(mask)
             j == k % ncols(mask)
         IN  (IF mask.values[i + 1][j + 1] # "False" THEN <<<<i, j>>>> ELSE <<>>)
                 \o true_positions(mask, k + 1)

get_table_sdc(ms, sup) ==
    [suppressed |-> sup,
     summary |-> [n \in RuleNameSet |-> IF HasMask(ms, n) THEN nansum(MaskOf(ms, n)) ELSE 0],
     cells |-> [n \in RuleNameSet |->
                   IF HasMask(ms, n) THEN true_positions(MaskOf(ms, n), 0) ELSE <<>>]]

----------------------------------------------------------------------------
(* SpecSupp: apply_suppression and get_table_sdc on a table and a mask dict *)

SuppIndex == <<1>>
SuppColumns == <<1, 2>>

\* tables: every cell a value, or the first cell missing
SuppTables ==
    {[index |-> SuppIndex, columns |-> SuppColumns, values |-> <<<<c, Num(2)>>>>] :
        c \in {Num(1), NaN}}

\* masks: the binary masks of the table's shape, one mask that is not binary,
\* and one mask of another shape
SuppMasks ==
    {[index |-> SuppIndex, columns |-> SuppColumns, values |-> <<<<a, b>>>>] :
        a \in {"True", "False"}, b \in {"True", "False"}}
    \cup {[index |-> SuppIndex, columns |-> SuppColumns, values |-> <<<<"NaN", "True">>>>],
          [index |-> SuppIndex, columns |-> <<1>>, values |-> <<<<"True">>>>]}

\* dicts of at most n masks: distinct names, any insertion order
RECURSIVE MaskDicts(_)
MaskDicts(n) ==
    IF n = 0 THEN {<<>>}
    ELSE LET shorter == MaskDicts(n - 1)
         IN  shorter \cup
             {Append(ms, [name |-> nm, df |-> m]) :
                 ms \in {d \in shorter : Len(d) = n - 1},
                 nm \in RuleNameSet, m \in SuppMasks}

DistinctNames(ms) == \A k, l \in 1..Len(ms) : k # l => ms[k].name # ms[l].name

InitSupp ==
    /\ THRESHOLD = 1
    /\ ZEROS_ARE_DISCLOSIVE = TRUE
    /\ CHECK_MISSING_VALUES = FALSE
    /\ suppress \in BOOLEAN
    /\ vals = <<>>
    /\ aggout = NotCalled
    /\ table \in SuppTables
    /\ masks \in {ms \in MaskDicts(MaxMasks) : DistinctNames(ms)}
    /\ safe_df = NoDF
    /\ outcome_df = NoDF
    /\ warnings = {}
    /\ reapplied = NoDF
    /\ NoSummary
    /\ raised = ""
    /\ NoModel
    /\ request = NoRequest
    /\ NoSession

Call_apply_suppression ==
    LET r == apply_suppression(table, masks)
    IN  /\ raised' = r.raised
        /\ safe_df' = r.safe_df
        /\ outcome_df' = r.outcome_df
        /\ warnings' = r.warnings
        /\ table' = r.table
        /\ UNCHANGED <<cfgVars, aggVars, masks, reapplied, sumVars, sessVars, regVars, request>>

Call_get_table_sdc ==
    /\ sdc' = get_table_sdc(masks, suppress)
    /\ UNCHANGED <<cfgVars, aggVars, suppVars, status, summary, raised, sessVars, regVars, request>>

\* the masks of a second application, recomputed for the redacted table:
\* the rule masks are computed from the records, which suppression leaves as
\* they are, so they are the masks of the first application; the threshold
\* mask of a frequency table is computed from its cells, t_values < THRESHOLD
RecomputedMasks(redacted) ==
    {masks, normalise(Mask("threshold", less_than(redacted, THRESHOLD)))}

\* apply_suppression applied a second time, to its own redacted output
Reapply_suppression ==
    /\ safe_df # NoDF
    /\ raised = ""
    /\ reapplied = NoDF
    /\ \E ms \in RecomputedMasks(safe_df) :
           /\ apply_suppression(safe_df, ms).raised = ""
           /\ reapplied' = apply_suppression(safe_df, ms).safe_df
    /\ UNCHANGED <<cfgVars, aggVars, table, masks, safe_df, outcome_df, warnings,
                   sumVars, raised, sessVars, regVars, request>>

NextSupp ==
    \/ Call_apply_suppression
    \/ Call_get_table_sdc
    \/ Reapply_suppression

SpecSupp == InitSupp /\ [][NextSupp]_vars

----------------------------------------------------------------------------
(* Data.  The data of a session is a set of records with two grouping keys   *)
(* and one value column; it is held as the group of values of each pair of   *)
(* keys.  Every aggregation of the program is symmetric in the order of a    *)
(* group, so a group is kept in nondecreasing order, missing values last.    *)

MaxRecords == 2      \* most records in the data

RowKeys == <<"a", "b">>      \* the values of the row key, sorted
ColKeys == <<"x", "y">>      \* the values of the column key, sorted
DataValues == {Num(0 - 1), Num(0), Num(1), NaN}
DataThresholds == {1, 2}

Range(s) == {s[i] : i \in 1..Len(s)}
KeyPairs == Range(RowKeys) \X Range(ColKeys)

Rank(v) == IF IsNa(v) THEN 1 + MaxVal ELSE v[1]
Ordered(g) == \A i \in 1..(Len(g) - 1) : Rank(g[i]) <= Rank(g[i + 1])

RECURSIVE DataSets(_)
DataSets(n) ==
    IF n = 0 THEN {[k \in KeyPairs |-> <<>>]}
    ELSE LET fewer == DataSets(n - 1)
         IN  fewer \cup
             {[d EXCEPT ![k] = Append(d[k], v)] : d \in fewer, k \in KeyPairs, v \in DataValues}

EmptyData == [k \in KeyPairs |-> <<>>]

----------------------------------------------------------------------------
(* Numeric cells.  A numeric cell is NaN, an integer <<x>> or a ratio <<n, d>> *)
(* with d > 0 (a mean, a median); a standard deviation is held as its square, *)
(* which is zero, and sums to zero, exactly when the deviation does.          *)

\* the sum of a row or column of cells, NaN skipped (skipna), as a ratio
RECURSIVE cells_sum(_)
cells_sum(cs) ==
    IF cs = <<>> THEN <<0, 1>>
    ELSE LET a == AsRatio(Head(cs))
             b == cells_sum(Tail(cs))
         IN  <<a[1] * b[2] + b[1] * a[2], a[2] * b[2]>>

row_of(df, i) == df.values[i]
col_of(df, j) == [i \in 1..nrows(df) |-> df.values[i][j]]

\* the positions of a sequence that are in P, in order
RECURSIVE Keep(_, _, _)
Keep(s, P, k) ==
    IF k > Len(s) THEN <<>>
    ELSE (IF k \in P THEN <<s[k]>> ELSE <<>>) \o Keep(s, P, k + 1)

\* df.loc[rows, cols] with boolean selectors, given as the positions kept
loc(df, R, C) ==
    [index |-> Keep(df.index, R, 1),
     columns |-> Keep(df.columns, C, 1),
     values |-> Keep([i \in 1..nrows(df) |-> Keep(df.values[i], C, 1)], R, 1)]

\* df.sum(axis=0) == 0 and df.sum(axis=1) == 0, as the positions where they hold
empty_cols_mask(df) == {j \in 1..ncols(df) : cells_sum(col_of(df, j))[1] = 0}
empty_rows_mask(df) == {i \in 1..nrows(df) : cells_sum(row_of(df, i))[1] = 0}

\* ", ".join(str(x) for x in keys)
RECURSIVE join(_)
join(keys) ==
    IF keys = <<>> THEN ""
    ELSE IF Len(keys) = 1 THEN keys[1]
    ELSE keys[1] \o ", " \o join(Tail(keys))

delete_empty_rows_columns(t) ==
    LET deleted_cols == Keep(t.columns, empty_cols_mask(t), 1)
        deleted_rows == Keep(t.index, empty_rows_mask(t), 1)
    IN  [table |-> loc(t, (1..nrows(t)) \ empty_rows_mask(t),
                          (1..ncols(t)) \ empty_cols_mask(t)),
         comments |->
            (IF deleted_cols # <<>>
             THEN <<"Empty columns: " \o join(deleted_cols) \o " were deleted.">>
             ELSE <<>>)
            \o (IF deleted_rows # <<>>
                THEN <<"Empty rows: " \o join(deleted_rows) \o " were deleted.">>
                ELSE <<>>)]

----------------------------------------------------------------------------
(* pandas: pivot_table / crosstab of the data, groupby(keys).agg(func)       *)
(* followed by dropna(how="all") and unstack                                 *)

AGGFUNC == [mean |-> "mean", median |-> "median", sum |-> "sum", std |-> "std",
            count |-> "count", mode |-> "mode_aggfunc"]

\* the aggregations pandas runs in cython: with Categorical keys they give a
\* result for the unobserved key pairs as well (observed=False)
CythonFuncs == {"mean", "median", "sum", "std", "count"}

occurrences(g, v) == Cardinality({i \in 1..Len(g) : g[i] = v})

\* Series.mode(): the most frequent non-missing values
mode(g) ==
    {v \in Range(dropna(g)) :
        \A w \in Range(dropna(g)) : occurrences(g, w) <= occurrences(g, v)}

mean(g) == IF count(g) = 0 THEN NaN ELSE <<sum(g), count(g)>>

median(g) ==
    LET s == sort_values_desc(dropna(g))
        n == Len(s)
    IN  IF n = 0 THEN NaN
        ELSE IF n % 2 = 1 THEN Num(s[(n + 1) \div 2][1])
        ELSE <<s[n \div 2][1] + s[(n \div 2) + 1][1], 2>>

RECURSIVE sum_squares(_)
sum_squares(g) ==
    IF g = <<>> THEN 0
    ELSE (IF IsNa(Head(g)) THEN 0 ELSE Head(g)[1] * Head(g)[1]) + sum_squares(Tail(g))

\* the square of Series.std() (ddof=1), NaN with fewer than 2 values
std(g) ==
    LET n == count(g)
    IN  IF n < 2 THEN NaN
        ELSE <<n * sum_squares(g) - sum(g) * sum(g), n * (n - 1)>>

\* func applied to one group; pick is the mode secrets.choice returns
Aggregate(func, g, pick) ==
    CASE func = "len" -> Num(size(g))
      [] func = "sum" -> Num(sum(g))
      [] func = "count" -> Num(count(g))
      [] func = "mean" -> mean(g)
      [] func = "median" -> median(g)
      [] func = "std" -> std(g)
      [] func = "mode_aggfunc" -> pick
      [] func \in RuleFns -> Bool(RulePredicate(func, g))

margins_name == "All"

\* the keys of the cells of a table with margins
AllKeys ==
    (Range(RowKeys) \cup {margins_name}) \X (Range(ColKeys) \cup {margins_name})

\* the key pairs a cell covers: its own, or for a margin those of the row, of
\* the column, or all of them
PairsOf(k) ==
    LET rows == IF k[1] = margins_name THEN RowKeys ELSE <<k[1]>>
        cols == IF k[2] = margins_name THEN ColKeys ELSE <<k[2]>>
    IN  [n \in 1..(Len(rows) * Len(cols)) |->
            <<rows[((n - 1) \div Len(cols)) + 1], cols[((n - 1) % Len(cols)) + 1]>>]

RECURSIVE records_of(_, _)
records_of(d, ks) ==
    IF ks = <<>> THEN <<>> ELSE d[Head(ks)] \o records_of(d, Tail(ks))

\* the values an aggregation is run on.  The margins are aggregated over
\* data[data.notna().all(axis=1)]: when a value column is aggregated the
\* records without a value are left out of them.
GroupOf(d, k, func) ==
    IF k \in KeyPairs THEN d[k]
    ELSE IF func = "len" THEN records_of(d, PairsOf(k))
    ELSE dropna(records_of(d, PairsOf(k)))

\* the key pairs the aggregation is run on
Grouped(d, cat, func) ==
    IF cat /\ func \in CythonFuncs THEN KeyPairs ELSE {k \in KeyPairs : d[k] # <<>>}

\* what an empty cell of the unstacked table holds
Hole(func) ==
    IF func \in RuleFns THEN "NaN" ELSE IF func = "len" THEN Num(0) ELSE NaN

\* the aggregation of one group, or of the records of one margin
agg(d, k, func, picks) == Aggregate(func, GroupOf(d, k, func), picks[k])

\* the groups left after the aggregation: dropna drops those whose result is NaN
agged(d, cat, func, picks) ==
    IF func \in RuleFns THEN Grouped(d, cat, func)
    ELSE {k \in Grouped(d, cat, func) : ~IsNa(agg(d, k, func, picks))}

\* one cell of the unstacked table: the result of a group that is left, a
\* hole for any other group, the aggregation of its records for a margin
\* that has records
cell(d, k, func, picks, left) ==
    IF k \notin left /\ (k \in KeyPairs \/ GroupOf(d, k, func) = <<>>) THEN Hole(func)
    ELSE agg(d, k, func, picks)

\* the table with the index idx and the columns cols
unstacked(d, func, picks, left, idx, cols) ==
    [index |-> idx, columns |-> cols,
     values |-> [i \in 1..Len(idx) |-> [j \in 1..Len(cols) |->
                    cell(d, <<idx[i], cols[j]>>, func, picks, left)]]]

\* the groups left, unstacked, with the margins last
unstack(d, func, margins, picks, left) ==
    IF margins /\ left = {}
    THEN [raised |-> "ValueError", df |-> NoDF]
    ELSE [raised |-> "",
          df |-> unstacked(d, func, picks, left,
                     SelectSeq(RowKeys, LAMBDA r : \E c \in Range(ColKeys) : <<r, c>> \in left)
                         \o (IF margins THEN <<margins_name>> ELSE <<>>),
                     SelectSeq(ColKeys, LAMBDA c : \E r \in Range(RowKeys) : <<r, c>> \in left)
                         \o (IF margins THEN <<margins_name>> ELSE <<>>))]

\* pd.pivot_table(data, values, index, columns, aggfunc=func, margins=margins),
\* dropna=True: a group whose result is NaN is dropped before the table is
\* unstacked, so every column of the table has a value and the final
\* dropna(how="all", axis=1) drops nothing.  mode_aggfunc on a group without
\* a value raises: secrets.choice of the empty Series of modes ends in an
\* IndexError or, in interpreters that index the Series first, in a KeyError;
\* the model records their common class, LookupError.  With margins the
\* aggregation is also run on every row, on every column and on all records,
\* and the results are the last column and the last row; there is nothing to
\* add them to when no group is left, and pandas raises ValueError.
pd_pivot_table(d, cat, func, margins, picks) ==
    IF func = "mode_aggfunc" /\ \E k \in Grouped(d, cat, func) : mode(d[k]) = {}
    THEN [raised |-> "LookupError", df |-> NoDF]
    ELSE unstack(d, func, margins, picks, agged(d, cat, func, picks))

\* pd.crosstab(index, columns, values, aggfunc=func): values and aggfunc come
\* together or not at all; without them it counts the records (len, fill 0)
pd_crosstab(d, cat, values, func, margins, picks) ==
    IF (values = "None") # (func = "None")
    THEN [raised |-> "ValueError", df |-> NoDF]
    ELSE pd_pivot_table(d, cat, IF func = "None" THEN "len" ELSE func, margins, picks)

\* the choices secrets.choice can make, one mode for every group that has one
RECURSIVE ModeChoices(_, _)
ModeChoices(d, K) ==
    IF K = {} THEN {<<>>}
    ELSE LET k == CHOOSE x \in K : TRUE
         IN  {f @@ (k :> m) : f \in ModeChoices(d, K \ {k}),
                              m \in IF mode(GroupOf(d, k, "mode_aggfunc")) = {} THEN {NaN}
                                    ELSE mode(GroupOf(d, k, "mode_aggfunc"))}

NoChoice == [k \in AllKeys |-> NaN]

----------------------------------------------------------------------------
(* The suppression masks of a tabulation *)

\* negative.to_numpy().sum() > 0: the sum is NaN, and the comparison False,
\* as soon as one cell of the mask is NaN
to_numpy_sum_positive(mask) == is_bool_dtype(mask) /\ nansum(mask) > 0

\* the mask of a rule predicate: the predicate aggregated over the table's groups
rule_mask(d, cat, fn, margins) == pd_pivot_table(d, cat, fn, margins, NoChoice).df

\* the rows and the columns that are not all zero or NaN
without_empty(df) ==
    loc(df, (1..nrows(df)) \ empty_rows_mask(df), (1..ncols(df)) \ empty_cols_mask(df))

\* if negative.to_numpy().sum() > 0: masks["negative"] = negative
negative_mask(negative) ==
    IF to_numpy_sum_positive(negative) THEN Mask("negative", negative) ELSE <<>>

\* dropna = True, normalize = False.  An aggfunc list of one
\* function ([count], [agg_negative], ..) gives the table of the function under
\* one more column level, the same cells in the same positions.
create_crosstab_masks(d, cat, agg_func, margins) ==
    normalise(
        IF agg_func # "None"
        THEN IF agg_func = "mode_aggfunc"
             THEN Mask("all-values-are-same", rule_mask(d, cat, "agg_values_are_same", margins))
             ELSE Mask("threshold",
                       less_than(without_empty(pd_pivot_table(d, cat, AGGFUNC["count"],
                                                              margins, NoChoice).df),
                                 THRESHOLD))
                  \o negative_mask(rule_mask(d, cat, "agg_negative", margins))
                  \o Mask("p-ratio", rule_mask(d, cat, "agg_p_percent", margins))
                  \o Mask("nk-rule", rule_mask(d, cat, "agg_nk", margins))
                  \o (IF CHECK_MISSING_VALUES
                      THEN Mask("missing", rule_mask(d, cat, "agg_missing", margins)) ELSE <<>>)
        ELSE Mask("threshold",
                  less_than(pd_pivot_table(d, cat, "len", margins, NoChoice).df, THRESHOLD)))

\* the masks Tables.pivot_table builds (margins = False)
pivot_table_masks(d, cat, aggfunc) ==
    normalise(
        Mask("threshold", rule_mask(d, cat, "agg_threshold", FALSE))
        \o (IF aggfunc # "None"
            THEN negative_mask(rule_mask(d, cat, "agg_negative", FALSE))
                 \o Mask("p-ratio", rule_mask(d, cat, "agg_p_percent", FALSE))
                 \o Mask("nk-rule", rule_mask(d, cat, "agg_nk", FALSE))
                 \o (IF CHECK_MISSING_VALUES
                     THEN Mask("missing", rule_mask(d, cat, "agg_missing", FALSE)) ELSE <<>>)
            ELSE <<>>))

----------------------------------------------------------------------------
(* A list of aggregation functions: pandas tabulates once for every function *)
(* of the list and puts the tables side by side, concat(pieces, keys=keys,   *)
(* axis=1), one column group for every function.                             *)

\* the rows of the pieces: those of the first piece, then the rows of the
\* later pieces that were not there yet, in the order they appear
RECURSIVE union_indexes(_)
union_indexes(pieces) ==
    IF pieces = <<>> THEN <<>>
    ELSE LET before == union_indexes(SubSeq(pieces, 1, Len(pieces) - 1))
         IN  before \o SelectSeq(pieces[Len(pieces)].index,
                                 LAMBDA r : r \notin Range(before))

\* the columns of the pieces, one group after another
RECURSIVE concat_columns(_)
concat_columns(pieces) ==
    IF pieces = <<>> THEN <<>> ELSE Head(pieces).columns \o concat_columns(Tail(pieces))

\* the row r of a piece, holes where the piece has no such row
row_in(piece, r, hole) ==
    IF r \in Range(piece.index)
    THEN piece.values[CHOOSE i \in 1..nrows(piece) : piece.index[i] = r]
    ELSE [j \in 1..ncols(piece) |-> hole]

\* the row r of the table: its cells in every piece, one group after another
RECURSIVE concat_row(_, _, _)
concat_row(pieces, r, hole) ==
    IF pieces = <<>> THEN <<>>
    ELSE row_in(Head(pieces), r, hole) \o concat_row(Tail(pieces), r, hole)

framed(pieces, idx, hole) ==
    [index |-> idx, columns |-> concat_columns(pieces),
     values |-> [i \in 1..Len(idx) |-> concat_row(pieces, idx[i], hole)]]

concat_axis1(pieces, hole) == framed(pieces, union_indexes(pieces), hole)

\* pd.crosstab(index, columns, values, aggfunc=[f1, .., fk]): the first
\* tabulation that raises ends the call
pd_crosstab_list(d, cat, values, funcs, margins, picks) ==
    LET tabled == [g \in 1..Len(funcs) |-> pd_pivot_table(d, cat, funcs[g], margins, picks)]
    IN  IF values = "None" THEN [raised |-> "ValueError", df |-> NoDF]
        ELSE IF \E g \in 1..Len(funcs) : tabled[g].raised # ""
        THEN [raised |-> tabled[CHOOSE g \in 1..Len(funcs) :
                                   /\ tabled[g].raised # ""
                                   /\ \A h \in 1..(g - 1) : tabled[h].raised = ""].raised,
              df |-> NoDF]
        ELSE [raised |-> "", df |-> concat_axis1([g \in 1..Len(funcs) |-> tabled[g].df], NaN)]

\* the rule predicate evaluated for one column group only, whatever the list
rule_masks_single(d, cat, fn, num, margins) ==
    concat_axis1(<<pd_pivot_table(d, cat, fn, margins, NoChoice).df>>, "NaN")

\* pd.crosstab(index, columns, values, aggfunc=[fn] * num): the rule predicate
\* evaluated once for every function of the list
rule_masks(d, cat, fn, num, margins) ==
    concat_axis1([g \in 1..num |-> pd_pivot_table(d, cat, fn, margins, NoChoice).df], "NaN")

\* create_crosstab_masks, isinstance(agg_func, list) with num = len(agg_func):
\* a list is not mode_aggfunc, whatever it holds
create_crosstab_masks_list(d, cat, num, margins) ==
    normalise(
        Mask("threshold",
             less_than(without_empty(
                           concat_axis1([g \in 1..num |->
                               pd_pivot_table(d, cat, AGGFUNC["count"], margins, NoChoice).df],
                               NaN)),
                       THRESHOLD))
        \o negative_mask(rule_masks(d, cat, "agg_negative", num, margins))
        \o Mask("p-ratio", rule_masks(d, cat, "agg_p_percent", num, margins))
        \o Mask("nk-rule", rule_masks(d, cat, "agg_nk", num, margins))
        \o (IF CHECK_MISSING_VALUES
            THEN Mask("missing", rule_masks(d, cat, "agg_missing", num, margins)) ELSE <<>>))

----------------------------------------------------------------------------
(* get_aggfunc, get_aggfuncs.  The aggfunc argument is [kind, names]: None,  *)
(* one name (kind "str") or a list of names.                                  *)

\* get_aggfunc with a name it does not know taken as "mean" instead of rejected
get_aggfunc_defaulting(aggfunc) ==
    IF aggfunc \notin DOMAIN AGGFUNC
    THEN [raised |-> "", func |-> AGGFUNC["mean"]]
    ELSE [raised |-> "", func |-> AGGFUNC[aggfunc]]

get_aggfunc(aggfunc) ==
    IF aggfunc \notin DOMAIN AGGFUNC
    THEN [raised |-> "ValueError", func |-> "None"]
    ELSE [raised |-> "", func |-> AGGFUNC[aggfunc]]

get_aggfuncs(aggfuncs) ==
    CASE aggfuncs.kind = "None" -> [raised |-> "", kind |-> "None", funcs |-> <<>>]
      [] aggfuncs.kind = "str" ->
            [raised |-> get_aggfunc(aggfuncs.names[1]).raised, kind |-> "str",
             funcs |-> <<get_aggfunc(aggfuncs.names[1]).func>>]
      [] aggfuncs.kind = "list" ->
            IF \E i \in 1..Len(aggfuncs.names) : get_aggfunc(aggfuncs.names[i]).raised # ""
            THEN [raised |-> "ValueError", kind |-> "list", funcs |-> <<>>]
            ELSE IF Len(aggfuncs.names) < 1
            THEN [raised |-> "ValueError", kind |-> "list", funcs |-> <<>>]
            ELSE [raised |-> "", kind |-> "list",
                  funcs |-> [i \in 1..Len(aggfuncs.names) |->
                                get_aggfunc(aggfuncs.names[i]).func]]

----------------------------------------------------------------------------
(* Tables.crosstab and Tables.pivot_table (the latter with margins = False) *)

\* the call raised e: nothing is returned and nothing is recorded
Failed(e) ==
    [raised |-> e, table |-> NoDF, masks |-> <<>>, sdc |-> NoSdc, status |-> "",
     summary |-> "", safe_df |-> NoDF, outcome_df |-> NoDF, warnings |-> {},
     output |-> NoDF, comments |-> <<>>]

\* apply_suppression raised e: nothing is returned and nothing is recorded;
\* the table, the masks and the report are those the call had built
Interrupted(e, t, ms, s) ==
    [Failed(e) EXCEPT !.table = t, !.masks = ms, !.sdc = s,
                      !.status = get_summary(s).status, !.summary = get_summary(s).summary]

\* the tail of a tabulation call with safe_table returned whatever the session says
checked_always_suppressing(t, cmts, ms, sup) ==
    LET s == get_table_sdc(ms, sup)
        a == apply_suppression(t, ms)
    IN  IF a.raised # "" THEN Interrupted(a.raised, t, ms, s)
        ELSE [raised |-> "", table |-> a.table, masks |-> ms, sdc |-> s,
              status |-> get_summary(s).status, summary |-> get_summary(s).summary,
              safe_df |-> a.safe_df, outcome_df |-> a.outcome_df,
              warnings |-> a.warnings,
              output |-> a.safe_df, comments |-> cmts]

\* the SDC dictionary, the status and summary, the suppression and the table
\* that is returned: safe_table when the session suppresses, else the table
checked(t, cmts, ms, sup) ==
    LET s == get_table_sdc(ms, sup)
        a == apply_suppression(t, ms)
    IN  IF a.raised # "" THEN Interrupted(a.raised, t, ms, s)
        ELSE [raised |-> "", table |-> a.table, masks |-> ms, sdc |-> s,
              status |-> get_summary(s).status, summary |-> get_summary(s).summary,
              safe_df |-> a.safe_df, outcome_df |-> a.outcome_df,
              warnings |-> a.warnings,
              output |-> IF sup THEN a.safe_df ELSE a.table, comments |-> cmts]

\* what a function returning a table returned: the table, None, or nothing
\* because it raised; and the warnings it logged
NoneTable == [index |-> <<"None">>, columns |-> <<>>, values |-> <<>>]
Totals(df) == [raised |-> "", df |-> df, warnings |-> {}]
Warned(df, w) == [raised |-> "", df |-> df, warnings |-> {w}]
Raised(e) == [raised |-> e, df |-> NoDF, warnings |-> {}]

\* Series.sum(): NaN is skipped, the sum of nothing is 0
sum_cells(cs) == LET s == cells_sum(cs) IN IF s[2] = 1 THEN Num(s[1]) ELSE s

NotMargin(keys) == {i \in 1..Len(keys) : keys[i] # margins_name}

\* table.loc[:, margins_name] = rows_total: a new last column
with_column(df, name, cells) ==
    [index |-> df.index, columns |-> Append(df.columns, name),
     values |-> [i \in 1..nrows(df) |-> Append(df.values[i], cells[i])]]

\* table.loc[margins_name] = cols_total: a new last row
with_row(df, name, cells) ==
    [index |-> Append(df.index, name), columns |-> df.columns,
     values |-> Append(df.values, cells)]

\* the margins left as the tabulation computed them
recalculate_margin_kept(t) == [raised |-> "", df |-> t, warnings |-> {}]

\* recalculate_margin: the margins are dropped (a KeyError when the table has
\* none) and set again, the column to the sums of the rows, among them the old
\* margin row, and the row then to the sums of the columns, among them the
\* new margin column
recalculate_margin(t) ==
    IF margins_name \notin Range(t.columns) \/ margins_name \notin Range(t.index)
    THEN Raised("KeyError")
    ELSE LET dropped == loc(t, 1..nrows(t), NotMargin(t.columns))
             rows_total == [i \in 1..nrows(dropped) |-> sum_cells(row_of(dropped, i))]
             wide == with_column(dropped, margins_name, rows_total)
             inner == loc(wide, NotMargin(wide.index), 1..ncols(wide))
             cols_total == [j \in 1..ncols(inner) |-> sum_cells(col_of(inner, j))]
         IN  Totals(with_row(inner, margins_name, cols_total))

\* manual_crossstab_with_totals, the strategy of show_suppressed = True.  Its
\* branch for aggfunc = "mean", which weighs the means by a table of counts,
\* is not part of this model: no call of the model passes "mean" with margins.
manual_crossstab_with_totals(t, aggfunc) ==
    IF aggfunc.kind = "list" THEN Warned(NoneTable, "margins-of-list")
    ELSE IF aggfunc \in {None, Str("sum"), Str("count")} THEN recalculate_margin(t)
    ELSE IF aggfunc = Str("std")
    THEN IF margins_name \notin Range(t.columns) \/ margins_name \notin Range(t.index)
         THEN Raised("KeyError")
         ELSE Warned(loc(t, NotMargin(t.index), NotMargin(t.columns)), "margins-of-std")
    ELSE Totals(t)

\* get_queries: one query for every cell that is true in some mask, naming
\* its row key and its column key; held as the set of these key pairs
get_queries(ms) ==
    {<<ms[k].df.index[i], ms[k].df.columns[j]>> :
        <<k, i, j>> \in {p \in (1..Len(ms)) \X (1..2 + Len(RowKeys)) \X (1..2 + Len(ColKeys)) :
                            /\ p[2] <= nrows(ms[p[1]].df)
                            /\ p[3] <= ncols(ms[p[1]].df)
                            /\ ms[p[1]].df.values[p[2]][p[3]] # "False"}}

\* the data with no query applied
query_kept(d, queries) == d

\* data.query(f"not ({query})") for every query: the records left
query_not(d, queries) == [k \in KeyPairs |-> IF k \in queries THEN <<>> ELSE d[k]]

\* what crosstab_with_totals returns once the masks are applied (a)
returned(a) ==
    IF a.raised = "ValueError" THEN Warned(NoneTable, "all-cells-disclosive")
    ELSE IF a.raised # "" THEN Raised(a.raised)
    ELSE Totals(a.safe_df)

\* the table computed again (t), pruned, and the new masks (ms) applied to it
suppressed(t, ms) ==
    IF t.raised = "ValueError" THEN Warned(NoneTable, "all-cells-disclosive")
    ELSE IF t.raised # "" THEN Raised(t.raised)
    ELSE returned(apply_suppression(delete_empty_rows_columns(t.df).table, ms))

\* the same with no except clause: a ValueError leaves the call
suppressed_uncaught(t, ms) ==
    IF t.raised # "" THEN Raised(t.raised)
    ELSE LET a == apply_suppression(delete_empty_rows_columns(t.df).table, ms)
         IN  IF a.raised # "" THEN Raised(a.raised) ELSE Totals(a.safe_df)

\* the strategy of show_suppressed = False with no except clause
crosstab_with_totals_uncaught(ms, agg_func, d, cat, values, picks) ==
    LET data_new == query_not(d, get_queries(ms))
    IN  suppressed_uncaught(pd_crosstab(data_new, cat, values, agg_func, TRUE, picks),
                            create_crosstab_masks(data_new, cat, agg_func, TRUE))

\* crosstab_with_totals(crosstab=True), the strategy of show_suppressed =
\* False: the records of the cells some mask marks are left out (data_new),
\* the table is computed again with its margins, and so are the masks, which
\* are applied to it.  A ValueError raised on the way is logged and None is
\* returned.
crosstab_with_totals(ms, agg_func, d, cat, values, picks) ==
    LET data_new == query_not(d, get_queries(ms))
    IN  suppressed(pd_crosstab(data_new, cat, values, agg_func, TRUE, picks),
                   create_crosstab_masks(data_new, cat, agg_func, TRUE))

\* if self.suppress and margins: the margins of the table that is returned.
\* When the strategy raises, nothing is returned and nothing is recorded; the
\* locals of the call are those it had.
with_totals(r, m) ==
    IF m.raised # "" THEN [r EXCEPT !.raised = m.raised, !.output = NoDF]
    ELSE [r EXCEPT !.output = m.df, !.warnings = r.warnings \cup m.warnings]

\* if self.suppress and margins: the strategy show_suppressed chooses
totalled(r, d, cat, sup, values, aggfunc, agg_func, margins, show_suppressed, repicks) ==
    IF r.raised # "" \/ ~sup \/ ~margins THEN r
    ELSE IF show_suppressed
    THEN with_totals(r, manual_crossstab_with_totals(r.output, aggfunc))
    ELSE with_totals(r, crosstab_with_totals(r.masks, agg_func, d, cat, values, repicks))

\* the table pruned of its empty rows and columns (not for mode_aggfunc)
pruned(t, agg_func) ==
    IF agg_func # "mode_aggfunc" THEN delete_empty_rows_columns(t.df)
    ELSE [table |-> t.df, comments |-> <<>>]

\* the tabulation (t) checked and suppressed, and its margins
tabulated(t, del, d, cat, sup, values, aggfunc, agg_func, margins, show_suppressed, repicks) ==
    IF t.raised # "" THEN Failed(t.raised)
    ELSE totalled(checked(del.table, del.comments,
                          create_crosstab_masks(d, cat, agg_func, margins), sup),
                  d, cat, sup, values, aggfunc, agg_func, margins, show_suppressed, repicks)

\* crosstab_with_totals(crosstab=True) with a list of functions
crosstab_with_totals_list(ms, funcs, d, cat, values, picks) ==
    LET data_new == query_not(d, get_queries(ms))
    IN  suppressed(pd_crosstab_list(data_new, cat, values, funcs, TRUE, picks),
                   create_crosstab_masks_list(data_new, cat, Len(funcs), TRUE))

\* if self.suppress and margins, with a list of functions
totalled_list(r, d, cat, sup, values, aggfunc, funcs, margins, show_suppressed, repicks) ==
    IF r.raised # "" \/ ~sup \/ ~margins THEN r
    ELSE IF show_suppressed
    THEN with_totals(r, manual_crossstab_with_totals(r.output, aggfunc))
    ELSE with_totals(r, crosstab_with_totals_list(r.masks, funcs, d, cat, values, repicks))

\* the tabulation of a list of functions (t), pruned (del), checked and
\* suppressed, and its margins
tabulated_list(t, del, d, cat, sup, values, aggfunc, funcs, margins, show_suppressed, repicks) ==
    IF t.raised # "" THEN Failed(t.raised)
    ELSE totalled_list(checked(del.table, del.comments,
                               create_crosstab_masks_list(d, cat, Len(funcs), margins), sup),
                       d, cat, sup, values, aggfunc, funcs, margins, show_suppressed, repicks)

\* the aggregation function of a call with one function
first_func(a) == IF a.kind = "str" THEN a.funcs[1] ELSE "None"

\* Tables.crosstab; picks are the choices of mode_aggfunc in the tabulation,
\* repicks those in the tabulation of crosstab_with_totals
crosstab(d, cat, sup, values, aggfunc, margins, show_suppressed, picks, repicks) ==
    LET a == get_aggfuncs(aggfunc)
        t == pd_crosstab(d, cat, values, first_func(a), margins, picks)
        tl == pd_crosstab_list(d, cat, values, a.funcs, margins, picks)
    IN  IF aggfunc.kind # "None" /\ values \in {"None", "list"} THEN Failed("ValueError")
        ELSE IF a.raised # "" THEN Failed(a.raised)
        ELSE IF a.kind = "list"
        THEN tabulated_list(tl, delete_empty_rows_columns(tl.df), d, cat, sup, values,
                            aggfunc, a.funcs, margins, show_suppressed, repicks)
        ELSE tabulated(t, pruned(t, first_func(a)), d, cat, sup, values, aggfunc,
                       first_func(a), margins, show_suppressed, repicks)

pivot_table(d, cat, sup, aggfunc, picks) ==
    LET a == get_aggfuncs(aggfunc)
    IN  IF a.raised # "" THEN Failed(a.raised)
        ELSE LET t == pd_pivot_table(d, cat, a.funcs[1], FALSE, picks)
             IN  IF t.raised # "" THEN Failed(t.raised)
                 ELSE LET del == delete_empty_rows_columns(t.df)
                      IN  checked(del.table, del.comments,
                                  pivot_table_masks(d, cat, a.funcs[1]), sup)

\* Records.add: results[uid] = new, output_id += 1
add(res, oid, r, method) ==
    LET new == [uid |-> "output_" \o ToString(oid), status |-> r.status,
                output_type |-> "table", properties |-> method, sdc |-> r.sdc,
                summary |-> r.summary, outcome |-> r.outcome_df, output |-> r.output,
                comments |-> r.comments, exception |-> ""]
    IN  IF \E i \in 1..Len(res) : res[i].uid = new.uid
        THEN [i \in 1..Len(res) |-> IF res[i].uid = new.uid THEN new ELSE res[i]]
        ELSE Append(res, new)

----------------------------------------------------------------------------
(* Spec: a session with data loaded, and one tabulation call *)

ValuesArgs == {"None", "Series", "list"}

\* None, the six names, a name that is not an aggregation function, the empty
\* list and a list with such a name
AggfuncArgs ==
    {None} \cup {Str(n) : n \in DOMAIN AGGFUNC \cup {"max"}}
           \cup {List(<<>>), List(<<"sum", "max">>)}

Init ==
    /\ THRESHOLD \in DataThresholds
    /\ ZEROS_ARE_DISCLOSIVE = TRUE
    /\ CHECK_MISSING_VALUES \in BOOLEAN
    /\ suppress \in BOOLEAN
    /\ vals = <<>>
    /\ aggout = NotCalled
    /\ NoSupp
    /\ NoSummary
    /\ raised = ""
    /\ NoModel
    /\ request = NoRequest
    /\ data \in {d \in DataSets(MaxRecords) :
                    d # EmptyData /\ \A k \in KeyPairs : Ordered(d[k])}
    /\ categorical \in BOOLEAN
    /\ call = NoCall
    /\ output = NoDF
    /\ comments = <<>>
    /\ results = <<>>
    /\ output_id = 0

\* the call ended as r says: its locals, what it returned or raised, the ledger
Ended(r, method) ==
    /\ raised' = r.raised
    /\ table' = r.table
    /\ masks' = r.masks
    /\ sdc' = r.sdc
    /\ status' = r.status
    /\ summary' = r.summary
    /\ safe_df' = r.safe_df
    /\ outcome_df' = r.outcome_df
    /\ warnings' = r.warnings
    /\ reapplied' = reapplied
    /\ output' = r.output
    /\ comments' = r.comments
    /\ results' = IF r.raised = "" THEN add(results, output_id, r, method) ELSE results
    /\ output_id' = IF r.raised = "" THEN output_id + 1 ELSE output_id
    /\ UNCHANGED <<cfgVars, aggVars, data, categorical, regVars, request>>

Picks(aggfunc) ==
    IF "mode" \in Range(aggfunc.names) THEN ModeChoices(data, KeyPairs) ELSE {NoChoice}

Crosstab(values, aggfunc) ==
    /\ call = NoCall
    /\ call' = [method |-> "crosstab", values |-> values, aggfunc |-> aggfunc,
                 margins |-> FALSE, show_suppressed |-> FALSE]
    /\ \E picks \in Picks(aggfunc) :
           Ended(crosstab(data, categorical, suppress, values, aggfunc, FALSE, FALSE,
                          picks, NoChoice), "crosstab")

PivotTable(aggfunc) ==
    /\ call = NoCall
    /\ call' = [method |-> "pivot_table", values |-> "Series", aggfunc |-> aggfunc,
                 margins |-> FALSE, show_suppressed |-> FALSE]
    /\ \E picks \in Picks(aggfunc) :
           Ended(pivot_table(data, categorical, suppress, aggfunc, picks), "pivot_table")

Next ==
    \/ \E values \in ValuesArgs : \E aggfunc \in AggfuncArgs : Crosstab(values, aggfunc)
    \/ \E aggfunc \in AggfuncArgs \ {None} : PivotTable(aggfunc)

Spec == Init /\ [][Next]_vars

----------------------------------------------------------------------------
(* SpecList: a session with data loaded, and one call of crosstab with a     *)
(* list of aggregation functions                                             *)

MaxFuncs == 2        \* most functions in the list

ListNames == {"sum", "mean", "mode"}

ListArgs == {List(ns) : ns \in SeqsUpTo(ListNames, MaxFuncs) \ {<<>>}}

CrosstabList(aggfunc) ==
    /\ call = NoCall
    /\ call' = [method |-> "crosstab", values |-> "Series", aggfunc |-> aggfunc,
                 margins |-> FALSE, show_suppressed |-> FALSE]
    /\ \E picks \in Picks(aggfunc) :
           Ended(crosstab(data, categorical, suppress, "Series", aggfunc, FALSE, FALSE,
                          picks, NoChoice), "crosstab")

NextList == \E aggfunc \in ListArgs : CrosstabList(aggfunc)

SpecList == Init /\ [][NextList]_vars

----------------------------------------------------------------------------
(* SpecPrune: delete_empty_rows_columns on a table *)

MaxCell == 1         \* the cells of the table range over -MaxCell..MaxCell and NaN

PruneCells == {Num(x) : x \in (0 - MaxCell)..MaxCell} \cup {NaN}

PruneTables ==
    {[index |-> RowKeys, columns |-> ColKeys, values |-> v] :
        v \in [1..Len(RowKeys) -> [1..Len(ColKeys) -> PruneCells]]}

InitPrune ==
    /\ THRESHOLD = 1
    /\ ZEROS_ARE_DISCLOSIVE = TRUE
    /\ CHECK_MISSING_VALUES = FALSE
    /\ suppress = TRUE
    /\ vals = <<>>
    /\ aggout = NotCalled
    /\ table \in PruneTables
    /\ masks = <<>>
    /\ safe_df = NoDF
    /\ outcome_df = NoDF
    /\ warnings = {}
    /\ reapplied = NoDF
    /\ NoSummary
    /\ raised = ""
    /\ NoModel
    /\ request = NoRequest
    /\ NoSession

Call_delete_empty_rows_columns ==
    /\ call = NoCall
    /\ call' = [NoCall EXCEPT !.method = "delete_empty_rows_columns"]
    /\ output' = delete_empty_rows_columns(table).table
    /\ comments' = delete_empty_rows_columns(table).comments
    /\ UNCHANGED <<cfgVars, aggVars, suppVars, sumVars, raised, data, categorical,
                   results, output_id, regVars, request>>

NextPrune == Call_delete_empty_rows_columns

SpecPrune == InitPrune /\ [][NextPrune]_vars

----------------------------------------------------------------------------
(* SpecQueries: get_queries and the filter of crosstab_with_totals, on keys  *)
(* of one or two levels.  A key is the tuple of its level values, a mask has *)
(* the names of the levels of its rows and of its columns, and a record is   *)
(* the function from the names of the key columns to its values.             *)

MaxFlagged == 2      \* most true cells in the masks

QueryLevels == {1, 2}            \* flat keys, and keys of two levels
LevelValues == {"u", "v"}
IndexNames == <<"r1", "r2">>
ColumnNames == <<"c1", "c2">>

RECURSIVE SubsetsUpTo(_, _)
SubsetsUpTo(S, n) ==
    IF n = 0 THEN {{}}
    ELSE LET smaller == SubsetsUpTo(S, n - 1)
         IN  smaller \cup {t \cup {x} : t \in smaller, x \in S}

\* the keys of n levels in sorted order, and the margin last
RECURSIVE SortedKeys(_)
SortedKeys(n) ==
    IF n = 0 THEN <<<<>>>>
    ELSE LET shorter == SortedKeys(n - 1)
             under(x) == [i \in 1..Len(shorter) |-> <<x>> \o shorter[i]]
         IN  under("u") \o under("v")

MarginKey(n) == [l \in 1..n |-> IF l = 1 THEN margins_name ELSE ""]

KeysWithMargin(n) == Append(SortedKeys(n), MarginKey(n))

\* the columns of a mask: with a list as aggfunc pandas puts a level with the
\* name of the function above the levels of the key, one group per function
RECURSIVE Grouping(_, _, _)
Grouping(fn, keys, num) ==
    IF num = 0 THEN <<>>
    ELSE [j \in 1..Len(keys) |-> <<fn>> \o keys[j]] \o Grouping(fn, keys, num - 1)

\* the mask name of fn for keys of nr and nc levels, true at the cells of F;
\* num = 0 when aggfunc is one function and not a list
BuiltMask(name, fn, nr, nc, num, F) ==
    LET cols == IF num = 0 THEN KeysWithMargin(nc) ELSE Grouping(fn, KeysWithMargin(nc), num)
    IN  [name |-> name,
         df |-> [index |-> KeysWithMargin(nr), columns |-> cols,
                 index_names |-> SubSeq(IndexNames, 1, nr),
                 columns_names |-> IF num = 0 THEN SubSeq(ColumnNames, 1, nc)
                                   ELSE <<"None">> \o SubSeq(ColumnNames, 1, nc),
                 values |-> [i \in 1..(Len(KeysWithMargin(nr))) |-> [j \in 1..Len(cols) |->
                                Bool(<<name, i, j>> \in F)]]]]

\* the masks create_crosstab_masks returns for the aggfunc, negative and
\* missing left out
MaskPlan(aggfunc) ==
    IF aggfunc = None THEN <<[name |-> "threshold", fn |-> "", num |-> 0]>>
    ELSE IF aggfunc = Str("mode")
    THEN <<[name |-> "all-values-are-same", fn |-> "", num |-> 0]>>
    ELSE LET num == IF aggfunc.kind = "list" THEN Len(aggfunc.names) ELSE 1
         IN  <<[name |-> "threshold", fn |-> "count", num |-> num],
               [name |-> "p-ratio", fn |-> "agg_p_percent", num |-> num],
               [name |-> "nk-rule", fn |-> "agg_nk", num |-> num]>>

BuiltMasks(aggfunc, nr, nc, F) ==
    [k \in 1..Len(MaskPlan(aggfunc)) |->
        BuiltMask(MaskPlan(aggfunc)[k].name, MaskPlan(aggfunc)[k].fn, nr, nc,
                  MaskPlan(aggfunc)[k].num, F)]

\* the cells of the masks of the plan
PlanCells(aggfunc, nr, nc) ==
    UNION {{<<MaskPlan(aggfunc)[k].name, i, j>> :
               i \in 1..(Len(KeysWithMargin(nr))),
               j \in 1..(Len(KeysWithMargin(nc))
                            * (IF MaskPlan(aggfunc)[k].num = 0 THEN 1
                               ELSE MaskPlan(aggfunc)[k].num))} :
           k \in 1..Len(MaskPlan(aggfunc))}

\* create_dataframe(index, columns): one record for every pair of keys
KeyRecords(nr, nc) ==
    {[n \in Range(SubSeq(IndexNames, 1, nr)) \cup Range(SubSeq(ColumnNames, 1, nc)) |->
          IF n \in Range(IndexNames)
          THEN r[CHOOSE l \in 1..nr : IndexNames[l] = n]
          ELSE c[CHOOSE l \in 1..nc : ColumnNames[l] = n]] :
        r \in Range(SortedKeys(nr)), c \in Range(SortedKeys(nc))}

QueryAggfuncs == {None, Str("mean"), Str("mode"), List(<<"mean", "sum">>)}

\* mask.droplevel(0, axis=1)
droplevel(df) ==
    [df EXCEPT !.columns = [j \in 1..Len(df.columns) |-> Tail(df.columns[j])],
               !.columns_names = Tail(df.columns_names)]

\* if aggfunc is not None: if mask.columns.nlevels > 1: drop the level
named(df, aggfunc) ==
    IF aggfunc # None /\ Len(df.columns_names) > 1 THEN droplevel(df) ELSE df

\* " & ".join of (level == val) over the levels of a label; a label that is
\* not a tuple has one level, and the brackets of its list of names are
\* removed before the query is used
label_query(names, label) == {<<names[l], label[l]>> : l \in 1..Len(names)}

\* the queries of the true cells of one mask
mask_queries(df) ==
    {label_query(df.index_names, df.index[i]) \cup label_query(df.columns_names, df.columns[j]) :
        <<i, j>> \in {p \in (1..Len(df.index)) \X (1..Len(df.columns)) :
                          df.values[p[1]][p[2]] # "False"}}

\* get_queries(masks, aggfunc): the set of the queries of all masks
true_cell_queries(ms, aggfunc) ==
    UNION {mask_queries(named(ms[k].df, aggfunc)) : k \in 1..Len(ms)}

\* data.query(f"not ({query})") for every query
queried(records, queries) ==
    {rec \in records : \A q \in queries : \E c \in q : rec[c[1]] # c[2]}

InitQueries ==
    /\ THRESHOLD = 1
    /\ ZEROS_ARE_DISCLOSIVE = TRUE
    /\ CHECK_MISSING_VALUES = FALSE
    /\ suppress = TRUE
    /\ vals = <<>>
    /\ aggout = NotCalled
    /\ table = NoDF
    /\ safe_df = NoDF
    /\ outcome_df = NoDF
    /\ warnings = {}
    /\ reapplied = NoDF
    /\ NoSummary
    /\ raised = ""
    /\ NoModel
    /\ request = NoRequest
    /\ categorical = FALSE
    /\ output = {}
    /\ comments = <<>>
    /\ results = <<>>
    /\ output_id = 0
    /\ \E aggfunc \in QueryAggfuncs : \E nr \in QueryLevels : \E nc \in QueryLevels :
           /\ call = [method |-> "crosstab", values |-> IF aggfunc = None THEN "None" ELSE "Series",
                       aggfunc |-> aggfunc, margins |-> TRUE, show_suppressed |-> FALSE]
           /\ data = KeyRecords(nr, nc)
           /\ masks \in {BuiltMasks(aggfunc, nr, nc, F) :
                            F \in SubsetsUpTo(PlanCells(aggfunc, nr, nc), MaxFlagged)}

\* true_cell_queries = get_queries(masks, aggfunc) and the loop over them
Call_get_queries ==
    /\ call.method = "crosstab"
    /\ call' = [call EXCEPT !.method = "crosstab_with_totals"]
    /\ output' = queried(data, true_cell_queries(masks, call.aggfunc))
    /\ UNCHANGED <<cfgVars, aggVars, suppVars, sumVars, raised, data, categorical,
                   comments, results, output_id, regVars, request>>

NextQueries == Call_get_queries

SpecQueries == InitQueries /\ [][NextQueries]_vars

----------------------------------------------------------------------------
(* SpecMargins: a session that suppresses, with data loaded, and one call of *)
(* crosstab with margins = True                                              *)

MaxMarginRecords == 4      \* most records in the data

MarginValues == {Num(0 - 1), Num(1)}

RECURSIVE MarginDataSets(_)
MarginDataSets(n) ==
    IF n = 0 THEN {EmptyData}
    ELSE LET fewer == MarginDataSets(n - 1)
         IN  fewer \cup
             {[d EXCEPT ![k] = Append(d[k], v)] :
                 d \in {f \in fewer : \A k \in KeyPairs : Ordered(f[k])},
                 k \in KeyPairs, v \in MarginValues}
MarginValuesArgs == {"None", "Series"}

\* None, four of the names, and a name that is not an aggregation function
MarginAggfuncArgs ==
    {None, Str("sum"), Str("count"), Str("std"), Str("median"), Str("max")}

InitMargins ==
    /\ THRESHOLD \in DataThresholds
    /\ ZEROS_ARE_DISCLOSIVE = TRUE
    /\ CHECK_MISSING_VALUES \in BOOLEAN
    /\ suppress = TRUE
    /\ vals = <<>>
    /\ aggout = NotCalled
    /\ NoSupp
    /\ NoSummary
    /\ raised = ""
    /\ NoModel
    /\ request = NoRequest
    /\ data \in {d \in MarginDataSets(MaxMarginRecords) :
                    d # EmptyData /\ \A k \in KeyPairs : Ordered(d[k])}
    /\ categorical = FALSE
    /\ call = NoCall
    /\ output = NoDF
    /\ comments = <<>>
    /\ results = <<>>
    /\ output_id = 0

CrosstabMargins(values, aggfunc, show_suppressed) ==
    /\ call = NoCall
    /\ call' = [method |-> "crosstab", values |-> values, aggfunc |-> aggfunc,
                 margins |-> TRUE, show_suppressed |-> show_suppressed]
    /\ Ended(crosstab(data, categorical, suppress, values, aggfunc, TRUE, show_suppressed,
                      NoChoice, NoChoice), "crosstab")

NextMargins ==
    \E values \in MarginValuesArgs : \E aggfunc \in MarginAggfuncArgs :
        \E show_suppressed \in BOOLEAN : CrosstabMargins(values, aggfunc, show_suppressed)

SpecMargins == InitMargins /\ [][NextMargins]_vars

----------------------------------------------------------------------------
(* Regression.__check_model_dof.  SpecDof: a fitted model and one check of    *)
(* its degrees of freedom                                                    *)

MaxDof == 12             \* largest residual degrees of freedom of a model
MaxDofThreshold == 11    \* largest configured safe_dof_threshold

ModelNames == {"ols", "olsr", "logit", "logitr", "probit", "probitr"}

\* str() of a float with an integral value, as in "807.0"
str_float(x) == ToString(x) \o ".0"

\* the check with the boundary on the failing side
check_model_dof_strict(name, dof, threshold) ==
    IF dof <= threshold
    THEN [status |-> "fail",
          summary |-> "fail; dof=" \o str_float(dof) \o " < " \o ToString(threshold),
          dof |-> <<dof>>,
          warning |-> "Unsafe " \o name \o ": " \o "fail; dof=" \o str_float(dof)
                          \o " < " \o ToString(threshold)]
    ELSE [status |-> "pass",
          summary |-> "pass; dof=" \o str_float(dof) \o " >= " \o ToString(threshold),
          dof |-> <<dof>>, warning |-> ""]

\* __check_model_dof(name, model) with dof = model.df_resid, a float, and
\* threshold = config["safe_dof_threshold"]: status, summary, float(dof) and
\* the warning issued
check_model_dof(name, dof, threshold) ==
    IF dof < threshold
    THEN [status |-> "fail",
          summary |-> "fail; dof=" \o str_float(dof) \o " < " \o ToString(threshold),
          dof |-> <<dof>>,
          warning |-> "Unsafe " \o name \o ": " \o "fail; dof=" \o str_float(dof)
                          \o " < " \o ToString(threshold)]
    ELSE [status |-> "pass",
          summary |-> "pass; dof=" \o str_float(dof) \o " >= " \o ToString(threshold),
          dof |-> <<dof>>, warning |-> ""]

InitDof ==
    /\ THRESHOLD = 1
    /\ ZEROS_ARE_DISCLOSIVE = TRUE
    /\ CHECK_MISSING_VALUES = FALSE
    /\ suppress = TRUE
    /\ vals = <<>>
    /\ aggout = NotCalled
    /\ NoSupp
    /\ NoSummary
    /\ raised = ""
    /\ NoSession
    /\ safe_dof_threshold \in 0..MaxDofThreshold
    /\ df_resid \in 0..MaxDof
    /\ dof_check = NotChecked
    /\ request = NoRequest

Call_check_model_dof(name) ==
    /\ dof_check = NotChecked
    /\ dof_check' = check_model_dof(name, df_resid, safe_dof_threshold)
    /\ UNCHANGED <<cfgVars, aggVars, suppVars, sumVars, raised, sessVars,
                   safe_dof_threshold, df_resid, request>>

NextDof == \E name \in ModelNames : Call_check_model_dof(name)

SpecDof == InitDof /\ [][NextDof]_vars

----------------------------------------------------------------------------
(* Records: add, add_custom, remove, rename, add_comments, add_exception.     *)
(* SpecLedger: a                                                             *)
(* Records object and the operations asked of it, one after the other        *)

MaxOutputs == 2      \* most outputs added to the Records object

\* the names the operations are asked with, the comments and the reasons
LedgerKeys == {"output_0", "output_1", "x"}
LedgerNewNames == {"output_0", "output_1", "x"}
LedgerComments == {"c"}
LedgerReasons == {"r"}

\* the keys of self.results; a record is stored under its uid
Keys(res) == {res[i].uid : i \in 1..Len(res)}

\* del self.results[key]
del(res, key) == SelectSeq(res, LAMBDA rec : rec.uid # key)

Done(res) == [raised |-> "", results |-> res]
NotDone(res) == [raised |-> "ValueError", results |-> res]

remove(res, key) ==
    IF key \notin Keys(res) THEN NotDone(res)
    ELSE Done(del(res, key))

\* rename with no check of the new name: the record stored under it is
\* replaced
rename_overwriting(res, old, new) ==
    IF old \notin Keys(res) THEN NotDone(res)
    ELSE LET rec == CHOOSE rec \in Range(res) : rec.uid = old
         IN  Done(Append(del(del(res, new), old), [rec EXCEPT !.uid = new]))

\* results[new] = results[old], its uid set to new, and del results[old]: the
\* record is now the last one inserted
rename(res, old, new) ==
    IF old \notin Keys(res) THEN NotDone(res)
    ELSE IF new \in Keys(res) THEN NotDone(res)
    ELSE LET rec == CHOOSE rec \in Range(res) : rec.uid = old
         IN  Done(Append(del(res, old), [rec EXCEPT !.uid = new]))

add_comments(res, output_name, comment) ==
    IF output_name \notin Keys(res) THEN NotDone(res)
    ELSE Done([i \in 1..Len(res) |->
                  IF res[i].uid = output_name
                  THEN [res[i] EXCEPT !.comments = Append(@, comment)]
                  ELSE res[i]])

add_exception(res, output_name, reason) ==
    IF output_name \notin Keys(res) THEN NotDone(res)
    ELSE Done([i \in 1..Len(res) |->
                  IF res[i].uid = output_name
                  THEN [res[i] EXCEPT !.exception = reason]
                  ELSE res[i]])

\* the output of a custom record, [os.path.normpath(filename)]
FileOutput == [index |-> <<"file">>, columns |-> <<>>, values |-> <<>>]

\* Records.add_custom: if the file exists, results[uid] = output, a record
\* to review with no report (sdc = {}), and output_id += 1; if not, a
\* warning is logged
add_custom(res, oid, exists, comment) ==
    LET new == [uid |-> "output_" \o ToString(oid), status |-> "review",
                output_type |-> "custom", properties |-> "", sdc |-> NoSdc,
                summary |-> "review", outcome |-> NoDF, output |-> FileOutput,
                comments |-> IF comment = "None" THEN <<>> ELSE <<comment>>,
                exception |-> ""]
    IN  IF ~exists THEN res
        ELSE IF \E i \in 1..Len(res) : res[i].uid = new.uid
        THEN [i \in 1..Len(res) |-> IF res[i].uid = new.uid THEN new ELSE res[i]]
        ELSE Append(res, new)

\* an output that passed its checks, as a tabulation call hands it to add
PassingOutput ==
    [status |-> "pass", sdc |-> NoSdc, summary |-> "pass", outcome_df |-> NoDF,
     output |-> NoDF, comments |-> <<>>]

InitLedger ==
    /\ THRESHOLD = 1
    /\ ZEROS_ARE_DISCLOSIVE = TRUE
    /\ CHECK_MISSING_VALUES = FALSE
    /\ suppress = TRUE
    /\ vals = <<>>
    /\ aggout = NotCalled
    /\ NoSupp
    /\ NoSummary
    /\ raised = ""
    /\ NoModel
    /\ request = NoRequest
    /\ NoSession

\* the operation ended as r says
Asked(req, r) ==
    /\ request' = req
    /\ raised' = r.raised
    /\ results' = r.results
    /\ UNCHANGED <<cfgVars, aggVars, suppVars, sumVars, regVars,
                   data, categorical, call, output, comments>>

LedgerAdd ==
    /\ output_id < MaxOutputs
    /\ output_id' = output_id + 1
    /\ Asked([method |-> "add", key |-> "", new |-> "", text |-> ""],
             Done(add(results, output_id, PassingOutput, "crosstab")))

LedgerAddCustom(exists, comment) ==
    /\ output_id < MaxOutputs
    /\ output_id' = IF exists THEN output_id + 1 ELSE output_id
    /\ Asked([method |-> "add_custom", key |-> IF exists THEN "file" ELSE "",
              new |-> "", text |-> comment],
             Done(add_custom(results, output_id, exists, comment)))

LedgerRemove(key) ==
    /\ UNCHANGED output_id
    /\ Asked([method |-> "remove", key |-> key, new |-> "", text |-> ""],
             remove(results, key))

LedgerRename(old, new) ==
    /\ UNCHANGED output_id
    /\ Asked([method |-> "rename", key |-> old, new |-> new, text |-> ""],
             rename(results, old, new))

\* the comments of a record are kept to one for each comment of the model
LedgerAddComments(key, comment) ==
    /\ \A rec \in Range(results) : Len(rec.comments) < Cardinality(LedgerComments)
    /\ UNCHANGED output_id
    /\ Asked([method |-> "add_comments", key |-> key, new |-> "", text |-> comment],
             add_comments(results, key, comment))

LedgerAddException(key, reason) ==
    /\ UNCHANGED output_id
    /\ Asked([method |-> "add_exception", key |-> key, new |-> "", text |-> reason],
             add_exception(results, key, reason))

NextLedger ==
    \/ LedgerAdd
    \/ \E exists \in BOOLEAN : \E comment \in LedgerComments \cup {"None"} :
           LedgerAddCustom(exists, comment)
    \/ \E key \in LedgerKeys : LedgerRemove(key)
    \/ \E old \in LedgerKeys : \E new \in LedgerNewNames : LedgerRename(old, new)
    \/ \E key \in LedgerKeys : \E comment \in LedgerComments : LedgerAddComments(key, comment)
    \/ \E key \in LedgerKeys : \E reason \in LedgerReasons : LedgerAddException(key, reason)

SpecLedger == InitLedger /\ [][NextLedger]_vars

----------------------------------------------------------------------------
(* Statements about the rule predicates, written without the predicates *)

\* the non-missing values of a group, as a set of positions
Present(v) == {i \in 1..Len(v) : ~IsNa(v[i])}

RECURSIVE SumAt(_, _)
SumAt(v, I) ==
    IF I = {} THEN 0
    ELSE LET i == CHOOSE x \in I : TRUE IN v[i][1] + SumAt(v, I \ {i})

\* the sum of the n largest values: the largest sum of n of them
\* (of all of them when there are fewer than n)
TopSum(v, n) ==
    LET k == IF Cardinality(Present(v)) < n THEN Cardinality(Present(v)) ELSE n
        picks == {I \in SUBSET Present(v) : Cardinality(I) = k}
    IN  CHOOSE t \in {SumAt(v, I) : I \in picks} :
            \A I \in picks : SumAt(v, I) <= t

\* C8: p_ratio on one group: the zeros_are_disclosive flag when the total is
\* <= 0 or the group has fewer than 2 contributors, otherwise true exactly when
\* (total - v1 - v2) / v1 < P for the two largest values v1 >= v2.
C8_PRatio ==
    aggout.fn = "agg_p_percent" =>
        LET total == SumAt(vals, Present(vals))
        IN  IF total <= 0 \/ Cardinality(Present(vals)) < 2
            THEN aggout.result = ZEROS_ARE_DISCLOSIVE
            ELSE aggout.result =
                   ((total - TopSum(vals, 2)) * SAFE_PRATIO_P[2]
                        < SAFE_PRATIO_P[1] * TopSum(vals, 1))

\* C9: nk_rule on one group is true exactly when total > 0 and the share of the
\* N largest values is strictly greater than K.
C9_NkRule ==
    aggout.fn = "agg_nk" =>
        LET total == SumAt(vals, Present(vals))
        IN  aggout.result =
              (total > 0 /\ TopSum(vals, SAFE_NK_N) * SAFE_NK_K[2] > SAFE_NK_K[1] * total)

\* a group whose top-N share is exactly K was evaluated and is not disclosive
C9_Witness ==
    /\ aggout.fn = "agg_nk"
    /\ SumAt(vals, Present(vals)) > 0
    /\ TopSum(vals, SAFE_NK_N) * SAFE_NK_K[2] = SAFE_NK_K[1] * SumAt(vals, Present(vals))
    /\ Len(vals) > SAFE_NK_N
    /\ ~aggout.result

\* C10: nk_rule is monotonic in the largest value: a group that is disclosive is
\* still disclosive after its single largest value was increased.
C10_NkMonotonic ==
    (aggout.fn = "agg_nk_increased" /\ aggout.before) => aggout.result

\* a disclosive group of more than N values had its largest value increased
C10_Witness ==
    /\ aggout.fn = "agg_nk_increased"
    /\ aggout.before
    /\ aggout.result
    /\ count(vals) > SAFE_NK_N

----------------------------------------------------------------------------
(* Statements about get_summary *)

Review(sm) == sm["negative"] > 0 \/ sm["missing"] > 0
Fail(sm) ==
    /\ ~Review(sm)
    /\ \E n \in {"threshold", "p-ratio", "nk-rule", "all-values-are-same"} : sm[n] > 0

\* C2: the status is a total three-way decision: review exactly when the
\* negative or the missing count is > 0, fail exactly when it is not review and
\* one of the four other counts is > 0, pass exactly when all six counts are 0.
C2_StatusDecision ==
    status # "" =>
        /\ status \in {"review", "fail", "pass"}
        /\ (status = "review") = Review(sdc.summary)
        /\ (status = "fail") = Fail(sdc.summary)
        /\ (status = "pass") = (\A n \in RuleNameSet : sdc.summary[n] = 0)

\* a missing count > 0 overrode nonzero counts of the other rules
C2_Witness ==
    /\ status = "review"
    /\ sdc.summary["negative"] = 0
    /\ sdc.summary["missing"] > 0
    /\ sdc.summary["threshold"] > 0
    /\ sdc.summary["all-values-are-same"] > 0

----------------------------------------------------------------------------
(* Statements about apply_suppression *)

Flags(mask, i, j) == mask.values[i][j] = "True"
AnyTrue(mask) == \E i \in 1..nrows(mask) : \E j \in 1..ncols(mask) : Flags(mask, i, j)
ShortCircuit(ms) ==
    \/ HasMask(ms, "negative") /\ AnyTrue(MaskOf(ms, "negative"))
    \/ HasMask(ms, "missing") /\ AnyTrue(MaskOf(ms, "missing"))
WellFormed(t, ms) ==
    \A k \in 1..Len(ms) : shape(ms[k].df) = shape(t) /\ is_bool_dtype(ms[k].df)

\* "<rule-name>; " for each mask from the k-th on that flags cell (i, j)
RECURSIVE LabelFrom(_, _, _, _)
LabelFrom(ms, k, i, j) ==
    IF k > Len(ms) THEN ""
    ELSE (IF Flags(ms[k].df, i, j) THEN ms[k].name \o "; " ELSE "")
             \o LabelFrom(ms, k + 1, i, j)

\* C3: when neither the negative nor the missing mask has a true cell, every
\* cell flagged by a mask is the missing sentinel in the redacted table and is
\* labelled with "<rule-name>; " for each rule that flags it, in mask order;
\* every cell flagged by no mask keeps its value and is labelled "ok".
C3_SuppressionApplied ==
    (safe_df # NoDF /\ raised = "" /\ WellFormed(table, masks) /\ ~ShortCircuit(masks)) =>
        \A i \in 1..nrows(table) : \A j \in 1..ncols(table) :
            IF \E k \in 1..Len(masks) : Flags(masks[k].df, i, j)
            THEN /\ safe_df.values[i][j] = NaN
                 /\ outcome_df.values[i][j] = LabelFrom(masks, 1, i, j)
            ELSE /\ safe_df.values[i][j] = table.values[i][j]
                 /\ outcome_df.values[i][j] = "ok"

----------------------------------------------------------------------------
(* Statements about Tables.crosstab and Tables.pivot_table *)

Returned(m) == call.method = m /\ raised = ""
Tabulated == Returned("crosstab") \/ Returned("pivot_table")

HasNegative(g) == \E i \in 1..Len(g) : ~IsNa(g[i]) /\ g[i][1] < 0

\* the records behind cell (i, j) of a DataFrame of the tabulation
GroupAt(df, i, j) == data[<<df.index[i], df.columns[j]>>]

\* C1: a call with an aggregation function, suppression enabled, on data with
\* at least one negative value: the status is review, no cell of the returned
\* table is suppressed or removed, and every cell whose group has a negative
\* value is labelled exactly "negative".
C1_NegativePriority ==
    (Tabulated /\ call.aggfunc # None /\ suppress
        /\ \E k \in KeyPairs : HasNegative(data[k])) =>
        /\ status = "review"
        /\ output = table
        /\ \A i \in 1..nrows(table) : \A j \in 1..ncols(table) :
               HasNegative(GroupAt(table, i, j)) => outcome_df.values[i][j] = "negative"

\* the coordinates the report lists, for any rule
Listed == UNION {Range(sdc.cells[n]) : n \in RuleNameSet}
Sentinels(df) ==
    {<<i, j>> \in (0..(nrows(df) - 1)) \X (0..(ncols(df) - 1)) :
        df.values[i + 1][j + 1] = NaN}

\* C4: a crosstab call with suppression enabled (and no margins) whose status
\* is fail: every coordinate the report lists is the missing sentinel in the
\* returned table, and the returned table has as many sentinel cells as there
\* are distinct listed coordinates.
C4_ReportAndTableAgree ==
    (Returned("crosstab") /\ suppress /\ status = "fail") =>
        /\ \A p \in Listed : output.values[p[1] + 1][p[2] + 1] = NaN
        /\ Cardinality(Sentinels(output)) = Cardinality(Listed)

\* the records that contribute to a cell: the records of the group for a
\* frequency table, those with a value when a value column is aggregated
Contributing(g) == IF call.aggfunc = None THEN size(g) ELSE count(g)

\* C5: in every tabulation, with or without an aggregation function, the
\* threshold mask is true at a cell exactly when the number of records that
\* contribute to the cell is less than THRESHOLD.
C5_ThresholdMask ==
    (Tabulated /\ HasMask(masks, "threshold")) =>
        LET mask == MaskOf(masks, "threshold")
        IN  \A i \in 1..nrows(mask) : \A j \in 1..ncols(mask) :
                (mask.values[i][j] = "True") = (Contributing(GroupAt(mask, i, j)) < THRESHOLD)

\* the summary of a fail status when nothing is suppressed
MayNeedSuppressing(sm) ==
    LET item(name) ==
            IF sm[name] > 0
            THEN name \o ": " \o ToString(sm[name]) \o " cells may need suppressing; "
            ELSE ""
    IN  "fail; " \o item("threshold") \o item("p-ratio") \o item("nk-rule")
            \o item("all-values-are-same")

\* C6: with suppression disabled the table returned by crosstab / pivot_table
\* is the pruned tabulation, no cell replaced by the missing sentinel; the
\* report still carries the number of flagged cells of every rule, and the
\* summary of a fail says the cells "may need suppressing".
C6_SuppressionDisabled ==
    (Tabulated /\ ~suppress) =>
        /\ output = table
        /\ ~sdc.suppressed
        /\ \A n \in RuleNameSet :
               sdc.summary[n] = IF HasMask(masks, n) THEN nansum(MaskOf(masks, n)) ELSE 0
        /\ status = "fail" => summary = MayNeedSuppressing(sdc.summary)

\* suppression was disabled, cells were flagged and counted, none was replaced
C6_Witness ==
    /\ Tabulated
    /\ ~suppress
    /\ status = "fail"
    /\ sdc.summary["threshold"] > 0
    /\ sdc.summary["p-ratio"] > 0
    /\ output = table
    /\ \E i \in 1..nrows(output) : \E j \in 1..ncols(output) : output.values[i][j] # NaN

ValidNames == {"mean", "median", "sum", "std", "count", "mode"}

\* C7: crosstab with an aggregation function and no value column or a list of
\* value columns, and crosstab / pivot_table with an aggregation-function name
\* outside {mean, median, sum, std, count, mode}, raise ValueError, and the
\* failed call adds no record to the ledger.
C7_InvalidArguments ==
    (\/ call.method = "crosstab" /\ call.aggfunc # None /\ call.values \in {"None", "list"}
     \/ call.method \in {"crosstab", "pivot_table"}
            /\ \E i \in 1..Len(call.aggfunc.names) : call.aggfunc.names[i] \notin ValidNames) =>
        /\ raised = "ValueError"
        /\ results = <<>>
        /\ output_id = 0

\* a call with a name that is not an aggregation function, and a value column
C7_Witness ==
    /\ call.method = "pivot_table"
    /\ call.aggfunc = Str("max")
    /\ raised = "ValueError"
    /\ results = <<>>

----------------------------------------------------------------------------
(* Further statements about apply_suppression *)

RECURSIVE LabelOver(_, _, _)
LabelOver(ms, k, S) ==
    IF k > Len(ms) THEN ""
    ELSE (IF k \in S THEN ms[k].name \o "; " ELSE "") \o LabelOver(ms, k + 1, S)

\* the labels an outcome cell may hold
OutcomeLabels(ms) ==
    {"ok", "negative", "missing"}
        \cup {LabelOver(ms, 1, S) : S \in (SUBSET (1..Len(ms))) \ {{}}}

\* C12: the redacted table and the outcome table that apply_suppression
\* returns have the row and column keys of the source table, and every cell of
\* the outcome table holds "ok", a semicolon-joined list of rule names,
\* "negative" or "missing", never an empty label.
C12_OutputWellFormed ==
    (safe_df # NoDF /\ raised = "") =>
        /\ safe_df.index = table.index /\ safe_df.columns = table.columns
        /\ outcome_df.index = table.index /\ outcome_df.columns = table.columns
        /\ \A i \in 1..nrows(outcome_df) : \A j \in 1..ncols(outcome_df) :
               outcome_df.values[i][j] \in OutcomeLabels(masks)

\* the cells of a DataFrame that hold the missing sentinel
SentinelCells(df) ==
    {<<i, j>> \in (1..nrows(df)) \X (1..ncols(df)) : df.values[i][j] = NaN}

----------------------------------------------------------------------------
(* Statements about the margins of a crosstab *)

\* the sum of f over the set S
RECURSIVE TotalOver(_, _)
TotalOver(f, S) ==
    IF S = {} THEN 0
    ELSE LET x == CHOOSE x \in S : TRUE IN f[x] + TotalOver(f, S \ {x})

\* a call with margins, suppression on and a frequency, sum or count
\* tabulation returned a table
TotalsReturned ==
    /\ Returned("crosstab")
    /\ call.margins
    /\ suppress
    /\ call.aggfunc \in {None, Str("sum"), Str("count")}
    /\ output # NoneTable

\* the positions of the cells of a table that are not margins, and of those
\* among them that are not suppressed
Inner(t) == NotMargin(t.index) \X NotMargin(t.columns)
Visible(t) == {p \in Inner(t) : ~IsNa(t.values[p[1]][p[2]])}
CellAt(t) == [p \in Visible(t) |-> t.values[p[1]][p[2]][1]]

\* what the records of a cell contribute to the tabulation
Contribution(g) ==
    IF call.aggfunc = None THEN Len(g)
    ELSE IF call.aggfunc = Str("count") THEN Cardinality(Present(g))
    ELSE TotalOver([i \in Present(g) |-> g[i][1]], Present(g))

\* the margins of t are those of its visible cells
MarginsOfVisible(t) ==
    LET last_row == nrows(t)
        last_col == ncols(t)
        row_total == [i \in NotMargin(t.index) |->
                         TotalOver(CellAt(t), {p \in Visible(t) : p[1] = i})]
        col_total == [j \in NotMargin(t.columns) |->
                         TotalOver(CellAt(t), {p \in Visible(t) : p[2] = j})]
    IN  /\ nrows(t) > 0 /\ t.index[last_row] = margins_name
        /\ ncols(t) > 0 /\ t.columns[last_col] = margins_name
        /\ \A i \in NotMargin(t.index) : t.values[i][last_col] = Num(row_total[i])
        /\ \A j \in NotMargin(t.columns) : t.values[last_row][j] = Num(col_total[j])
        /\ t.values[last_row][last_col] = Num(TotalOver(row_total, NotMargin(t.index)))
        /\ t.values[last_row][last_col] = Num(TotalOver(col_total, NotMargin(t.columns)))
        /\ t.values[last_row][last_col] =
               Num(TotalOver([p \in Visible(t) |-> Contribution(GroupAt(t, p[1], p[2]))],
                             Visible(t)))

\* C14: with margins requested, suppression on and a frequency, sum or count
\* tabulation, the margins of the returned table are consistent with its
\* visible cells: each row total is the sum of the non-suppressed cells of the
\* row, each column total that of the column, and the grand total is the sum
\* of the row totals, the sum of the column totals, and the sum over the
\* records of the cells that are not suppressed.
C14_MarginsConsistent == TotalsReturned => MarginsOfVisible(output)

\* a sum tabulation with show_suppressed returned a table in which a cell is
\* suppressed and another is visible
C14_Witness ==
    /\ TotalsReturned
    /\ call.show_suppressed
    /\ call.aggfunc = Str("sum")
    /\ Visible(output) # {}
    /\ \E p \in Inner(output) :
           IsNa(output.values[p[1]][p[2]]) /\ ~IsNa(table.values[p[1]][p[2]])

\* a valid call with margins and aggfunc = "std", suppression on
StdWithMargins ==
    /\ call.method = "crosstab"
    /\ call.margins
    /\ suppress
    /\ call.values = "Series"
    /\ call.aggfunc = Str("std")

HasMargin(t) == margins_name \in Range(t.index) \/ margins_name \in Range(t.columns)

\* C15: whenever margins are requested with aggfunc = "std" and suppression is
\* on, no error is raised, the returned table has no margin row and no margin
\* column, and the warning that the combination is unsupported is recorded.
C15_StdMarginsDropped ==
    StdWithMargins =>
        /\ raised = ""
        /\ ~HasMargin(output)
        /\ "margins-of-std" \in warnings

\* some mask is true at the cell of the key pair k
Flagged(k) ==
    \E n \in 1..Len(masks) :
        \E i \in 1..nrows(masks[n].df) : \E j \in 1..ncols(masks[n].df) :
            /\ masks[n].df.index[i] = k[1]
            /\ masks[n].df.columns[j] = k[2]
            /\ masks[n].df.values[i][j] = "True"

\* crosstab got as far as the re-derivation strategy, and every record of the
\* data is in a flagged cell
EveryRecordFiltered ==
    /\ call.method = "crosstab"
    /\ call.margins
    /\ ~call.show_suppressed
    /\ suppress
    /\ masks # <<>>
    /\ safe_df # NoDF
    /\ \A k \in KeyPairs : data[k] # <<>> => Flagged(k)

\* C16: when the re-derivation strategy filters out every record,
\* crosstab_with_totals returns None and logs a warning, no exception reaches
\* the caller of crosstab, and the call appends exactly one output record.
C16_NotComputable ==
    EveryRecordFiltered =>
        /\ raised = ""
        /\ output = NoneTable
        /\ "all-cells-disclosive" \in warnings
        /\ Len(results) = 1
        /\ results[1].output = NoneTable

\* a frequency table all of whose cells are below the threshold
C16_Witness ==
    /\ EveryRecordFiltered
    /\ call.aggfunc = None
    /\ \E k \in KeyPairs : data[k] # <<>>
    /\ output = NoneTable
    /\ output_id = 1

----------------------------------------------------------------------------
(* Statements about the check of the model's degrees of freedom *)

Checked == dof_check # NotChecked

\* C17: the check returns status "pass" if and only if dof >= the threshold,
\* so that dof equal to the threshold passes, and "fail" otherwise; the
\* summary is "pass; dof=<dof> >= <threshold>" in the one case and
\* "fail; dof=<dof> < <threshold>" in the other, and so begins with the status.
C17_DofCheck ==
    Checked =>
        /\ dof_check.status \in {"pass", "fail"}
        /\ dof_check.status = "pass" <=> df_resid >= safe_dof_threshold
        /\ dof_check.summary =
               dof_check.status \o "; dof=" \o ToString(df_resid) \o ".0"
                   \o (IF df_resid >= safe_dof_threshold THEN " >= " ELSE " < ")
                   \o ToString(safe_dof_threshold)

\* a model whose degrees of freedom equal the threshold was checked
C17_Witness ==
    /\ Checked
    /\ df_resid = safe_dof_threshold
    /\ dof_check.status = "pass"

----------------------------------------------------------------------------
(* Statements about the summary line *)

ListedOrder == <<"threshold", "p-ratio", "nk-rule", "all-values-are-same">>

\* the violated rules among ListedOrder[k..], each with its count
RECURSIVE Listing(_)
Listing(k) ==
    IF k > Len(ListedOrder) THEN ""
    ELSE (IF sdc.summary[ListedOrder[k]] > 0
          THEN ListedOrder[k] \o ": " \o ToString(sdc.summary[ListedOrder[k]])
                   \o (IF sdc.suppressed THEN " cells suppressed; "
                       ELSE " cells may need suppressing; ")
          ELSE "")
         \o Listing(k + 1)

\* C18: the summary of get_summary starts with the status; when the status is
\* "fail" it lists after it, in the order threshold, p-ratio, nk-rule,
\* all-values-are-same, exactly the rules whose count is > 0, each with its
\* count and "cells suppressed; " when the suppressed flag is set and "cells
\* may need suppressing; " otherwise; when no rule is violated it is "pass".
C18_SummaryLine ==
    status # "" =>
        /\ summary \in {status, status \o "; negative values found",
                         status \o "; missing values found",
                         status \o "; " \o Listing(1)}
        /\ status = "fail" => summary = "fail; " \o Listing(1)
        /\ (\A name \in DOMAIN sdc.summary : sdc.summary[name] = 0) => summary = "pass"

\* a failing summary of a session that does not suppress, listing the first
\* and the third rule but not the second
C18_Witness ==
    /\ status = "fail"
    /\ ~sdc.suppressed
    /\ sdc.summary["threshold"] > 0
    /\ sdc.summary["p-ratio"] = 0
    /\ sdc.summary["nk-rule"] > 0

----------------------------------------------------------------------------
(* Statements about masks that are not binary *)

Binary(m) ==
    \A i \in 1..nrows(m) : \A j \in 1..ncols(m) : m.values[i][j] \in {"True", "False"}

NonBinary == {k \in 1..Len(masks) : ~Binary(masks[k].df)}

\* apply_suppression was called with a mask that is not binary
CalledWithNonBinary == (safe_df # NoDF \/ raised # "") /\ NonBinary # {}

\* a binary mask of the call is true at the cell
TrueInBinary(i, j) ==
    \E k \in (1..Len(masks)) \ NonBinary :
        /\ i <= nrows(masks[k].df) /\ j <= ncols(masks[k].df)
        /\ masks[k].df.values[i][j] = "True"

\* C19: a non-binary mask passed to apply_suppression is logged as a warning
\* and skipped: the call raises no exception, the skipped mask changes no
\* cell of the redacted table, and the binary masks of the call are applied.
C19_NonBinarySkipped ==
    CalledWithNonBinary =>
        /\ raised = ""
        /\ \A k \in NonBinary : masks[k].name \in warnings
        /\ \A i \in 1..nrows(table) : \A j \in 1..ncols(table) :
               safe_df.values[i][j] = IF TrueInBinary(i, j) THEN NaN ELSE table.values[i][j]

----------------------------------------------------------------------------
(* Statements about the Records object *)

Naming == {"remove", "rename", "add_comments", "add_exception"}

\* the uids under which records are stored
Stored == {results[i].uid : i \in 1..Len(results)}

\* this step is an operation that names an output, asked in a state where the
\* operation must fail
MustFail ==
    /\ request'.method \in Naming
    /\ \/ request'.key \notin Stored
       \/ request'.method = "rename" /\ request'.new \in Stored

\* C20: remove, rename, add_comments and add_exception raise ValueError when
\* the output they name is not in the ledger, rename also when the new name
\* is already present, and whenever one of them raises, the records, their
\* uids, comments and exceptions, are as they were.
C20_FailsAtomically ==
    [][/\ MustFail => raised' = "ValueError"
       /\ (request'.method \in Naming /\ raised' = "ValueError") =>
              results' = results /\ output_id' = output_id]_vars

\* a rename to a name that is present was refused, with records stored
C20_Witness ==
    /\ request.method = "rename"
    /\ request.key \in Stored
    /\ request.new \in Stored
    /\ request.key # request.new
    /\ raised = "ValueError"
    /\ \E i \in 1..Len(results) : results[i].comments # <<>> /\ results[i].exception # ""

----------------------------------------------------------------------------
(* Statements about a list of aggregation functions *)

\* a call of crosstab with a list of functions returned
ReturnedList == Returned("crosstab") /\ call.aggfunc.kind = "list"

NumFuncs == Len(call.aggfunc.names)

NonModeFuncs == {"mean", "median", "sum", "std", "count"}

\* the mask has NumFuncs column groups of the same width, all with the keys
\* and the cells of the first
GroupsAlike(m) ==
    \E w \in 0..ncols(m) :
        /\ ncols(m) = NumFuncs * w
        /\ \A g \in 1..NumFuncs : \A j \in 1..w :
               /\ m.columns[(g - 1) * w + j] = m.columns[j]
               /\ \A i \in 1..nrows(m) : m.values[i][(g - 1) * w + j] = m.values[i][j]

\* the report of a call with the one function f on the same data
SingleSdc(f) == get_table_sdc(create_crosstab_masks(data, categorical, f, FALSE), suppress)

\* C21: when a list of k aggregation functions is requested, every mask has
\* k column groups that are identical to each other, and every per-rule
\* violation count is k times the count of a call with one non-mode function
\* on the same data.
C21_ListBroadcast ==
    ReturnedList =>
        /\ \A k \in 1..Len(masks) : GroupsAlike(masks[k].df)
        /\ \A f \in NonModeFuncs : \A n \in RuleNameSet :
               sdc.summary[n] = NumFuncs * SingleSdc(f).summary[n]

\* two functions, and a rule that two cells of the masks break
C21_Witness ==
    /\ ReturnedList
    /\ NumFuncs = 2
    /\ \E n \in RuleNameSet : sdc.summary[n] >= 2
    /\ \E k \in 1..Len(masks) : ncols(masks[k].df) >= 2

----------------------------------------------------------------------------
(* Statements about the masks of a tabulation *)

\* C22: the masks of every crosstab and pivot_table call that returns, with
\* no aggregation function, with one (mode among them) or with a list, hold
\* a mask named threshold.
C22_ThresholdAlways == Tabulated => HasMask(masks, "threshold")

\* C23: in every mask of a tabulation, every cell that no record of the data
\* contributes to is true.
C23_EmptyCellsFlagged ==
    Tabulated =>
        \A k \in 1..Len(masks) :
            \A i \in 1..nrows(masks[k].df) : \A j \in 1..ncols(masks[k].df) :
                GroupAt(masks[k].df, i, j) = <<>> => masks[k].df.values[i][j] = "True"

\* a crosstab or pivot_table call handed its table and masks to
\* apply_suppression
Handed == call.method \in {"crosstab", "pivot_table"} /\ masks # <<>>

\* C24: every mask of a crosstab or pivot_table call has the row keys and the
\* column keys of the pruned table, so that a position of the report is the
\* same cell in the mask and in the table.
C24_MasksAligned ==
    Handed =>
        \A k \in 1..Len(masks) :
            /\ masks[k].df.index = table.index
            /\ masks[k].df.columns = table.columns

----------------------------------------------------------------------------
(* Statements about delete_empty_rows_columns *)

Pruned == call.method = "delete_empty_rows_columns"

ZeroOrMissing(c) == IsNa(c) \/ c = Num(0)

RemovedRows == {i \in 1..nrows(table) : table.index[i] \notin Range(output.index)}
RemovedCols == {j \in 1..ncols(table) : table.columns[j] \notin Range(output.columns)}

\* C25: delete_empty_rows_columns removes a row, and a column, if and only if
\* every cell of it is zero or missing, and the comments it returns name the
\* key of every row and column removed.
C25_PrunesEmptyOnly ==
    Pruned =>
        /\ \A i \in 1..nrows(table) :
               i \in RemovedRows <=> \A j \in 1..ncols(table) : ZeroOrMissing(table.values[i][j])
        /\ \A j \in 1..ncols(table) :
               j \in RemovedCols <=> \A i \in 1..nrows(table) : ZeroOrMissing(table.values[i][j])
        /\ RemovedRows # {} =>
               \E c \in Range(comments) :
                   c = "Empty rows: " \o join(Keep(table.index, RemovedRows, 1)) \o " were deleted."
        /\ RemovedCols # {} =>
               \E c \in Range(comments) :
                   c = "Empty columns: " \o join(Keep(table.columns, RemovedCols, 1))
                           \o " were deleted."

----------------------------------------------------------------------------
(* Statements about the records the re-derivation strategy leaves out *)

Queried == call.method = "crosstab_with_totals"

\* the key of a column of a mask: its label without the level of the
\* function, which the masks of mean, sum, .. and of a list have
KeyOfColumn(label) ==
    IF call.aggfunc = None \/ call.aggfunc = Str("mode") THEN label ELSE Tail(label)

RowKeyOf(rec) == [l \in 1..(Cardinality(DOMAIN rec \cap Range(IndexNames))) |-> rec[IndexNames[l]]]
ColKeyOf(rec) == [l \in 1..(Cardinality(DOMAIN rec \cap Range(ColumnNames))) |-> rec[ColumnNames[l]]]

\* some mask is true at the cell of the record
InFlaggedCell(rec) ==
    \E k \in 1..Len(masks) :
        \E i \in 1..Len(masks[k].df.index) : \E j \in 1..Len(masks[k].df.columns) :
            /\ masks[k].df.values[i][j] = "True"
            /\ masks[k].df.index[i] = RowKeyOf(rec)
            /\ KeyOfColumn(masks[k].df.columns[j]) = ColKeyOf(rec)

\* C26: the records the re-derivation strategy leaves out before it tabulates
\* again are exactly the records of the cells that some mask flags, for keys
\* of one level and of several, for one aggregation function and for a list.
C26_FlaggedRecordsDropped ==
    Queried => \A rec \in data : rec \notin output <=> InFlaggedCell(rec)

----------------------------------------------------------------------------
(* Statements about the negative mask and the report *)

NonModeCall == Tabulated /\ call.aggfunc.kind = "str" /\ call.aggfunc # Str("mode")

\* C27: a call with a non-mode aggregation function has a mask named
\* negative if and only if the group of some cell holds a value below zero,
\* whether or not other cells of the tabulation are empty.
C27_NegativeDetected ==
    NonModeCall => (HasMask(masks, "negative") <=> \E k \in KeyPairs : HasNegative(data[k]))

Distinct(seq) == \A a, b \in 1..Len(seq) : a # b => seq[a] # seq[b]

\* a report has been built by the call of the state
Reported == call.method \in {"crosstab", "pivot_table"} /\ sdc # NoSdc

\* C28: in every report built by get_table_sdc, the count of each of the six
\* rule names is the number of coordinates listed for it, the coordinates
\* listed are pairwise distinct, and a rule with no mask has count 0 and no
\* coordinates.
C28_CountsMatchCells ==
    Reported =>
        \A n \in RuleNameSet :
            /\ sdc.summary[n] = Len(sdc.cells[n])
            /\ Distinct(sdc.cells[n])
            /\ ~HasMask(masks, n) => (sdc.summary[n] = 0 /\ sdc.cells[n] = <<>>)

\* a report with two cells listed for one rule and no mask for another
C28_Witness ==
    /\ Reported
    /\ raised = ""
    /\ \E n \in RuleNameSet : HasMask(masks, n) /\ sdc.summary[n] >= 2
    /\ \E n \in RuleNameSet : ~HasMask(masks, n)

----------------------------------------------------------------------------
(* The two margin strategies compared *)

PosIn(seq, x) == CHOOSE i \in 1..Len(seq) : seq[i] = x
At(t, r, c) == t.values[PosIn(t.index, r)][PosIn(t.columns, c)]

\* the same call with the other value of show_suppressed
OtherStrategy ==
    crosstab(data, categorical, suppress, call.values, call.aggfunc, TRUE,
             ~call.show_suppressed, NoChoice, NoChoice)

\* a frequency crosstab with margins and suppression on returned a table
FrequencyTotals ==
    /\ Returned("crosstab")
    /\ call.aggfunc = None
    /\ call.margins
    /\ suppress
    /\ output # NoneTable

\* the call with the other strategy (o) returns a table too
Both(o) == o.raised = "" /\ o.output # NoneTable

Rederived(o) == IF call.show_suppressed THEN o.output ELSE output
Analytic(o) == IF call.show_suppressed THEN output ELSE o.output

\* the rows and columns of the analytic table (an) that the re-derived one
\* (re) lacks
AbsentRows(re, an) == Range(an.index) \ Range(re.index)
AbsentCols(re, an) == Range(an.columns) \ Range(re.columns)

StrategiesAgree(re, an) ==
    /\ Range(re.index) \subseteq Range(an.index)
    /\ Range(re.columns) \subseteq Range(an.columns)
    /\ \A r \in Range(re.index), c \in Range(re.columns) : At(re, r, c) = At(an, r, c)
    /\ \A r \in AbsentRows(re, an), c \in Range(an.columns) \ {margins_name} :
           IsNa(At(an, r, c))
    /\ \A c \in AbsentCols(re, an), r \in Range(an.index) \ {margins_name} :
           IsNa(At(an, r, c))

AgreeWith(o) == Both(o) => StrategiesAgree(Rederived(o), Analytic(o))

\* C29: for a frequency crosstab with margins and suppression on, the table
\* of show_suppressed = False and the table of show_suppressed = True have the
\* same row totals, column totals and grand total, and the same cells, for
\* every row and column present in both; the re-derived table has no row or
\* column that the analytic one lacks, and a row or column it lacks is fully
\* suppressed in the analytic one.
C29_StrategiesAgree == FrequencyTotals => AgreeWith(OtherStrategy)

Differing(re, an) ==
    /\ AbsentRows(re, an) \cup AbsentCols(re, an) # {}
    /\ \E r \in Range(re.index) \ {margins_name} :
           ~IsNa(At(re, r, margins_name)) /\ At(re, r, margins_name)[1] >= 2

DifferWith(o) == Both(o) /\ Differing(Rederived(o), Analytic(o))

\* both strategies return a table, and a fully suppressed row or column is
\* absent from the re-derived one, which has a row total of 2 or more
C29_Witness == FrequencyTotals /\ DifferWith(OtherStrategy)

----------------------------------------------------------------------------
(* Statements about the keys of the Records object *)

\* add, or add_custom of a file that exists, is the step taken
Inserting == request'.method \in {"add", "add_custom"} /\ output_id' = output_id + 1

\* C30: whatever add, add_custom, remove and rename operations came before,
\* an add or add_custom stores its record under a key that was not present:
\* there is one record more, every record there was is still there,
\* unchanged, and no two records have the same uid.
C30_InsertsUnderFreshKey ==
    [][Inserting =>
          /\ Len(results') = Len(results) + 1
          /\ \A i \in 1..Len(results) : results'[i] = results[i]
          /\ \A i, j \in 1..Len(results') : i # j => results'[i].uid # results'[j].uid]_vars

====
